---- MODULE Spec2Model ----
(***************************************************************************)
(* Aeterna: Clash of Elements.  A model of the rules engine (HexGrid,      *)
(* GameState, SpecialAbilityDeck, WinChecker, ActionExecutor) and of the   *)
(* game-flow orchestrator (HexInteraction) that drives it in hotseat play. *)
(***************************************************************************)
EXTENDS Integers, Sequences, FiniteSets, TLC

VARIABLES
    state,          \* HexInteraction.state : the live GameState
    savedState,     \* HexInteraction.savedState : GameState clone or Null
    ui,             \* the remaining private fields of HexInteraction
    dialog,         \* which GameDialog is on screen (decides the buttons offered)
    lastEvent,      \* the handler that ran last, with its arguments
    atSelect,       \* the GameState at the last onActionSelected (history)
    events,         \* number of user events handled so far
    heap,           \* object store of the aliasing model of clone()
    gRef,           \* aliasing model: address of the live GameState g
    sRef,           \* aliasing model: address of the snapshot s, 0 before clone()
    nextAddr,       \* aliasing model: next unused object address
    api             \* record of the last direct ActionExecutor call

vars == <<state, savedState, ui, dialog, lastEvent, atSelect, events,
          heap, gRef, sRef, nextAddr, api>>

Null == "null"

\* ------------------------------------------------------------------------
\* Sequence helpers (Array.prototype counterparts)
\* ------------------------------------------------------------------------
Range(s) == {s[i] : i \in DOMAIN s}

includes(s, x) == \E i \in DOMAIN s : s[i] = x

indexOf(s, x) ==
    IF includes(s, x) THEN CHOOSE i \in DOMAIN s : s[i] = x /\ \A j \in 1..(i-1) : s[j] # x
    ELSE 0

\* arr.splice(idx, 1)
splice1(s, idx) == [i \in 1..(Len(s)-1) |-> IF i < idx THEN s[i] ELSE s[i+1]]

RECURSIVE SetToSortedSeq(_)
SetToSortedSeq(S) ==
    IF S = {} THEN <<>>
    ELSE LET m == CHOOSE x \in S : \A y \in S : x <= y
         IN <<m>> \o SetToSortedSeq(S \ {m})

Abs(x) == IF x < 0 THEN -x ELSE x
Max2(a, b) == IF a > b THEN a ELSE b
Sign(x) == IF x > 0 THEN 1 ELSE IF x < 0 THEN -1 ELSE 0

\* ------------------------------------------------------------------------
\* HexGrid
\* ------------------------------------------------------------------------
NumHexes == 41
ALL_HEX_IDS == 1..NumHexes

\* <<q, r>> per hex id
HEX_AXIAL == <<
    <<0,-4>>,
    <<-2,-3>>, <<-1,-3>>, <<0,-3>>, <<1,-3>>,
    <<-4,-2>>, <<-3,-2>>, <<-2,-2>>, <<-1,-2>>, <<0,-2>>, <<1,-2>>, <<2,-2>>,
    <<-3,-1>>, <<-2,-1>>, <<-1,-1>>, <<0,-1>>, <<1,-1>>, <<2,-1>>,
    <<-4,0>>, <<-3,0>>, <<-2,0>>, <<-1,0>>, <<0,0>>, <<1,0>>, <<2,0>>,
    <<-3,1>>, <<-2,1>>, <<-1,1>>, <<0,1>>, <<1,1>>, <<2,1>>,
    <<-3,2>>, <<-2,2>>, <<-1,2>>, <<0,2>>, <<1,2>>,
    <<-2,3>>, <<-1,3>>, <<0,3>>, <<1,3>>,
    <<-1,4>> >>

SHORE_HEXES == {1, 2, 5, 6, 12, 13, 18, 19, 25, 26, 31, 32, 36, 37, 40, 41}

AXIAL_DIRECTIONS == << <<1,0>>, <<-1,0>>, <<0,1>>, <<0,-1>>, <<1,-1>>, <<-1,1>> >>

\* axialToId.get(`${q},${r}`); 0 stands for undefined
Lookup(S) == IF S = {} THEN 0 ELSE CHOOSE h \in S : TRUE

axialToId(q, r) == Lookup({h \in ALL_HEX_IDS : HEX_AXIAL[h] = <<q, r>>})

\* the neighbours of each hex, in AXIAL_DIRECTIONS order
\* the hex i steps from axial position ax in direction d, 0 when off the board
HexAt(ax, d, i) ==
    axialToId(ax[1] + AXIAL_DIRECTIONS[d][1] * i, ax[2] + AXIAL_DIRECTIONS[d][2] * i)

ADJACENCY ==
    [id \in ALL_HEX_IDS |->
        SelectSeq([d \in 1..6 |-> HexAt(HEX_AXIAL[id], d, 1)], LAMBDA n : n # 0)]

getNeighbors(hexId) == ADJACENCY[hexId]

NeighborSet == [id \in ALL_HEX_IDS |-> Range(ADJACENCY[id])]

isShore(hexId) == hexId \in SHORE_HEXES

axialDistance(ac, bc) ==
    Max2(Max2(Abs(ac[1] - bc[1]), Abs(ac[2] - bc[2])),
         Abs((ac[1] + ac[2]) - (bc[1] + bc[2])))

hexDistance(a, b) == axialDistance(HEX_AXIAL[a], HEX_AXIAL[b])

axialStraightLine(ac, bc) ==
    \/ ac[1] = bc[1]
    \/ ac[2] = bc[2]
    \/ (0 - ac[1] - ac[2]) = (0 - bc[1] - bc[2])

isStraightLine(a, b) == axialStraightLine(HEX_AXIAL[a], HEX_AXIAL[b])

\* the walk of getLinePath from ac towards bc, dist steps of <<dq, dr>>
axialLinePath(ac, dq, dr, dist) ==
    LET path == [i \in 1..dist |-> axialToId(ac[1] + dq * i, ac[2] + dr * i)]
    IN IF dq = 0 /\ dr = 0 THEN [isNull |-> FALSE, path |-> <<>>]
       ELSE IF includes(path, 0) THEN [isNull |-> TRUE, path |-> <<>>]
       ELSE [isNull |-> FALSE, path |-> path]

\* getLinePath: isNull when not a straight line or when the walk leaves the board
linePathBetween(ac, bc) ==
    IF ~axialStraightLine(ac, bc) THEN [isNull |-> TRUE, path |-> <<>>]
    ELSE axialLinePath(ac, Sign(bc[1] - ac[1]), Sign(bc[2] - ac[2]), axialDistance(ac, bc))

getLinePath(from, to) == linePathBetween(HEX_AXIAL[from], HEX_AXIAL[to])

\* a line of hexes cut at the first step that leaves the board
cutAtEdge(cells) ==
    IF includes(cells, 0) THEN SubSeq(cells, 1, indexOf(cells, 0) - 1) ELSE cells

\* one line of getLineHexes: the hexes in direction d, cut at the board edge
LineInDirection(from, d, range) ==
    cutAtEdge([i \in 1..range |-> HexAt(HEX_AXIAL[from], d, i)])

\* getLineHexes: the non-empty lines, in direction order
getLineHexes(from, range) ==
    SelectSeq([d \in 1..6 |-> LineInDirection(from, d, range)], LAMBDA l : Len(l) > 0)

\* getReachableHexes: breadth-first search with a FIFO queue of <<hex, dist>>.
\* The two callbacks are given by their extensions: canEnter is the set of
\* hexes n with canEnter(n), canPassThrough likewise.
RECURSIVE ReachLoop(_, _, _, _, _, _)
\* one iteration: fresh are the neighbours entered from the head of the queue
ReachStep(queue, visited, reachable, range, canEnter, canPassThrough, fresh) ==
    ReachLoop(Tail(queue)
                \o [i \in 1..Len(SelectSeq(fresh, LAMBDA n : n \in canPassThrough)) |->
                        <<SelectSeq(fresh, LAMBDA n : n \in canPassThrough)[i], queue[1][2] + 1>>],
              visited \cup Range(fresh), reachable \cup Range(fresh),
              range, canEnter, canPassThrough)

ReachLoop(queue, visited, reachable, range, canEnter, canPassThrough) ==
    IF Len(queue) = 0 THEN reachable
    ELSE ReachStep(queue, visited, reachable, range, canEnter, canPassThrough,
                   IF queue[1][2] >= range THEN <<>>
                   ELSE SelectSeq(getNeighbors(queue[1][1]),
                                  LAMBDA n : n \notin visited /\ n \in canEnter))

\* getReachableHexes that goes on through every hex it has entered
getReachableHexesPassingAll(start, range, canEnter, canPassThrough) ==
    ReachLoop(<< <<start, 0>> >>, {start}, {}, range, canEnter, canEnter)

getReachableHexes(start, range, canEnter, canPassThrough) ==
    ReachLoop(<< <<start, 0>> >>, {start}, {}, range, canEnter, canPassThrough)

\* ------------------------------------------------------------------------
\* types
\* ------------------------------------------------------------------------
Undefined == "undefined"
NoElemental == "none"       \* hex.elemental === undefined
NoHex == 0                  \* an undefined HexId (a missing array element)

Elementals == {"earth", "water", "fire"}
TokenTypes == {"mountain", "forest", "fire", "lake", "fog"}

EARTH_ACTIONS == <<"uproot", "raise-mountain", "landslide", "sprout", "special">>
WATER_ACTIONS == <<"mosey", "conjure", "surf", "rematerialize", "special">>
FIRE_ACTIONS == <<"smoke-dash", "flame-dash", "firestorm", "firewall", "special">>

getActionsForElemental(type) ==
    CASE type = "earth" -> EARTH_ACTIONS
      [] type = "water" -> WATER_ACTIONS
      [] type = "fire" -> FIRE_ACTIONS

\* the ids of SPECIAL_CARDS, in declaration order
SPECIAL_CARDS == <<"start-of-turn", "move-2-ignore", "move-3-line",
                   "teleport-shore", "use-any-ability", "swap-places">>

\* ------------------------------------------------------------------------
\* SpecialAbilityDeck   (a card is represented by its id)
\* ------------------------------------------------------------------------
\* buildDeck before the shuffle: two copies of every card
buildDeck == [i \in 1..(2 * Len(SPECIAL_CARDS)) |-> SPECIAL_CARDS[(i + 1) \div 2]]

Rotate(a, k) == [i \in 1..Len(a) |-> a[((i - 1 + k) % Len(a)) + 1]]

\* shuffle(arr): Math.random decides the permutation.  The outcomes explored
\* are the rotations of arr, each of which Fisher-Yates can produce.
shuffle(arr) == {Rotate(arr, k) : k \in 0..(Len(arr) - 1)}

activeCard(d) == IF Len(d.deck) > 0 THEN d.deck[1] ELSE Null

\* useActiveCard that drops the used card instead of discarding it
useActiveCardDropping(d, shuffled) ==
    IF Len(d.deck) = 0 THEN d
    ELSE LET deck1 == Tail(d.deck)
             discard1 == d.discard
         IN IF Len(deck1) = 0 /\ Len(discard1) > 0 /\ ~d.noReshuffle
            THEN [d EXCEPT !.deck = shuffled, !.discard = <<>>]
            ELSE [d EXCEPT !.deck = deck1, !.discard = discard1]

\* useActiveCard; shuffled is the outcome of shuffle(discard) should it run
useActiveCard(d, shuffled) ==
    IF Len(d.deck) = 0 THEN d
    ELSE LET deck1 == Tail(d.deck)
             discard1 == Append(d.discard, d.deck[1])
         IN IF Len(deck1) = 0 /\ Len(discard1) > 0 /\ ~d.noReshuffle
            THEN [d EXCEPT !.deck = shuffled, !.discard = <<>>]
            ELSE [d EXCEPT !.deck = deck1, !.discard = discard1]

\* the deck useActiveCard would reshuffle from
DiscardAfterUse(d) == IF Len(d.deck) = 0 THEN d.discard ELSE Append(d.discard, d.deck[1])

\* ------------------------------------------------------------------------
\* GameState
\* ------------------------------------------------------------------------
currentPlayer(s) == <<"earth", "water", "fire">>[s.currentPlayerIndex + 1]

getPlayer(s, type) == s.players[type]

getHex(s, id) == s.board[id]

setElementalOnHex(s, hexId, type) ==
    [s EXCEPT
        !.board = [id \in ALL_HEX_IDS |->
            [s.board[id] EXCEPT !.elemental =
                IF id = hexId THEN type
                ELSE IF s.board[id].elemental = type THEN NoElemental
                ELSE s.board[id].elemental]],
        !.players[type].hexId = hexId]

\* setElementalOnHex(undefined, type): the loop that clears the old position
\* runs, then the write to the missing hex throws
clearElemental(s, type) ==
    [s EXCEPT
        !.board = [id \in ALL_HEX_IDS |->
            [s.board[id] EXCEPT !.elemental = IF @ = type THEN NoElemental ELSE @]]]

setStoneMinion(s, hexId) ==
    [s EXCEPT !.board = [id \in ALL_HEX_IDS |->
        [s.board[id] EXCEPT !.stoneMinion = (id = hexId)]]]

\* NoHex stands for null
getStoneMinionHex(s) ==
    LET M == {id \in ALL_HEX_IDS : s.board[id].stoneMinion}
    IN IF M = {} THEN NoHex ELSE CHOOSE id \in M : \A o \in M : id <= o

addToken(s, hexId, token) ==
    [s EXCEPT !.board[hexId].tokens = Append(@, token)]

hasToken(s, hexId, token) == includes(s.board[hexId].tokens, token)

\* removeToken mutates only when the token is there
removeToken(s, hexId, token) ==
    IF ~hasToken(s, hexId, token) THEN s
    ELSE [s EXCEPT !.board[hexId].tokens = splice1(@, indexOf(@, token))]

nonFogTokens(s, hexId) == SelectSeq(s.board[hexId].tokens, LAMBDA t : t # "fog")

isHexEmpty(s, hexId) ==
    /\ Len(nonFogTokens(s, hexId)) = 0
    /\ s.board[hexId].elemental = NoElemental
    /\ ~s.board[hexId].stoneMinion

RECURSIVE SumOver(_, _)
SumOver(f, D) ==
    IF D = {} THEN 0
    ELSE LET x == CHOOSE x \in D : TRUE IN f[x] + SumOver(f, D \ {x})

countTokensOnBoard(s, token) ==
    SumOver([id \in ALL_HEX_IDS |-> Len(SelectSeq(s.board[id].tokens, LAMBDA t : t = token))],
            ALL_HEX_IDS)

getTokenOwner(token) ==
    CASE token \in {"mountain", "forest"} -> "earth"
      [] token \in {"lake", "fog"} -> "water"
      [] token = "fire" -> "fire"

\* supplies[key] ?? 0
supplyOf(p, key) == IF key \in DOMAIN p.supplies THEN p.supplies[key] ELSE 0

returnTokenToSupply(s, token) ==
    LET owner == getTokenOwner(token)
    IN [s EXCEPT !.players[owner].supplies =
            [k \in (DOMAIN @) \cup {token} |-> IF k = token THEN supplyOf(s.players[owner], token) + 1 ELSE @[k]]]

destroyToken(s, hexId, token) ==
    IF hasToken(s, hexId, token)
    THEN returnTokenToSupply(removeToken(s, hexId, token), token)
    ELSE s

\* takeFromSupply without the test of the supply
canTakeFromSupplyAlways(s, player, token) == TRUE

\* takeFromSupply returns false, and changes nothing, when the supply is empty
canTakeFromSupply(s, player, token) == supplyOf(s.players[player], token) > 0

takeFromSupply(s, player, token) ==
    IF ~canTakeFromSupply(s, player, token) THEN s
    ELSE [s EXCEPT !.players[player].supplies[token] = @ - 1]

\* advanceTurn counting a turn at every change of player
advanceTurnCountingEach(s) ==
    LET idx == (s.currentPlayerIndex + 1) % 3
    IN [s EXCEPT !.currentPlayerIndex = idx,
                 !.turnNumber = @ + 1,
                 !.phase = "START_OF_TURN",
                 !.pendingAction = Null,
                 !.sotUsed = FALSE]

advanceTurn(s) ==
    LET idx == (s.currentPlayerIndex + 1) % 3
    IN [s EXCEPT !.currentPlayerIndex = idx,
                 !.turnNumber = IF idx = 0 THEN @ + 1 ELSE @,
                 !.phase = "START_OF_TURN",
                 !.pendingAction = Null,
                 !.sotUsed = FALSE]

\* a log entry keeps turn, player and action; description names the message
addLog(s, description) ==
    [s EXCEPT !.log = Append(@, [turn |-> s.turnNumber, player |-> currentPlayer(s),
                                 action |-> IF s.pendingAction = Null THEN "" ELSE s.pendingAction,
                                 description |-> description])]

\* The two fields that the executor sets on the GameState without the class
\* declaring them.  pendingFogMove is Undefined, "true" or "false";
\* pendingForcedMove is a record whose kind is Undefined, Null or "move".
NoForcedMove(kind) == [kind |-> kind, player |-> "", validTargets |-> {}]

\* new GameState(): initBoard and setupScenario1; deck is the shuffled deck
NewGameState(deck) ==
    LET s0 == [board |-> [id \in ALL_HEX_IDS |->
                    [tokens |-> <<>>, elemental |-> NoElemental, stoneMinion |-> FALSE]],
               players |-> [t \in Elementals |->
                    CASE t = "earth" -> [hexId |-> 32, actionMarker |-> Null,
                                         supplies |-> [mountain |-> 3, forest |-> 3]]
                      [] t = "water" -> [hexId |-> 2, actionMarker |-> Null,
                                         supplies |-> [lake |-> 4, fog |-> 1]]
                      [] t = "fire" -> [hexId |-> 36, actionMarker |-> Null,
                                        supplies |-> [fire |-> 11]]],
               currentPlayerIndex |-> 0,
               turnNumber |-> 1,
               phase |-> "START_OF_TURN",
               specialDeck |-> [deck |-> deck, discard |-> <<>>, noReshuffle |-> FALSE],
               log |-> <<>>,
               winner |-> Null,
               pendingAction |-> Null,
               stepInstruction |-> "",
               sotUsed |-> FALSE,
               pendingFogMove |-> Undefined,
               pendingForcedMove |-> NoForcedMove(Undefined)]
        s1 == setElementalOnHex(setElementalOnHex(setElementalOnHex(s0, 32, "earth"), 2, "water"), 36, "fire")
        s2 == addToken(addToken(addToken(addToken(s1, 22, "mountain"), 9, "lake"), 9, "fog"), 24, "fire")
    IN addLog(setStoneMinion(s2, 19), "Game started. Scenario 1.")

\* clone(): a GameState with fresh copies of every container.  Fields the
\* class does not declare (pendingFogMove, pendingForcedMove) are not set on
\* the copy, and stepInstruction is not copied.
clone(s) ==
    [s EXCEPT !.stepInstruction = "",
              !.pendingFogMove = Undefined,
              !.pendingForcedMove = NoForcedMove(Undefined)]

\* Object.assign(target, source): every own property of source is copied
ObjectAssign(target, source) ==
    [source EXCEPT
        !.pendingFogMove = IF source.pendingFogMove = Undefined
                           THEN target.pendingFogMove ELSE @,
        !.pendingForcedMove = IF source.pendingForcedMove.kind = Undefined
                              THEN target.pendingForcedMove ELSE @]

\* JavaScript truthiness of the two fields
hasPendingForcedMove(s) == s.pendingForcedMove.kind = "move"
hasPendingFogMove(s) == s.pendingFogMove = "true"

\* ------------------------------------------------------------------------
\* WinChecker
\* ------------------------------------------------------------------------
checkEarthWin(s) ==
    \/ s.players["earth"].hexId = s.players["water"].hexId
    \/ (getStoneMinionHex(s) # NoHex /\ getStoneMinionHex(s) = s.players["water"].hexId)
    \/ countTokensOnBoard(s, "forest") >= 3

checkWaterWin(s) == s.players["water"].hexId = s.players["fire"].hexId

checkFireWin(s) ==
    \/ s.players["fire"].hexId = s.players["earth"].hexId
    \/ countTokensOnBoard(s, "fire") >= 12

\* checkWinConditions with Fire evaluated before Water
checkWinConditionsFireFirst(s) ==
    IF checkEarthWin(s) THEN "earth"
    ELSE IF checkFireWin(s) THEN "fire"
    ELSE IF checkWaterWin(s) THEN "water"
    ELSE Null

checkWinConditions(s) ==
    IF checkEarthWin(s) THEN "earth"
    ELSE IF checkWaterWin(s) THEN "water"
    ELSE IF checkFireWin(s) THEN "fire"
    ELSE Null

\* canElementalEnter without the rule that Earth cannot enter fire
canElementalEnterThroughFire(s, type, hexId) ==
    LET hex == getHex(s, hexId)
    IN /\ ~hex.stoneMinion
       /\ ~includes(hex.tokens, "mountain")
       /\ (type = "fire" => ~includes(hex.tokens, "lake"))

canElementalEnter(s, type, hexId) ==
    LET hex == getHex(s, hexId)
    IN /\ ~hex.stoneMinion
       /\ ~includes(hex.tokens, "mountain")
       /\ (type = "earth" => ~includes(hex.tokens, "fire"))
       /\ (type = "fire" => ~includes(hex.tokens, "lake"))

isTrapped(s, type) ==
    \A n \in Range(getNeighbors(s.players[type].hexId)) : ~canElementalEnter(s, type, n)

\* ------------------------------------------------------------------------
\* ActionExecutor: helpers
\* A list of target hexes is represented by the set of its elements, except
\* where the code depends on the order.
\* ------------------------------------------------------------------------
canEarthEnter(s, hexId) == ~hasToken(s, hexId, "fire")

canEarthPassThrough(s, hexId) ==
    /\ ~hasToken(s, hexId, "fire")
    /\ ~(hasToken(s, hexId, "fog") /\ getHex(s, hexId).elemental = NoElemental)

canEarthEnd(s, hexId) ==
    /\ ~hasToken(s, hexId, "fire")
    /\ ~hasToken(s, hexId, "mountain")
    /\ ~getHex(s, hexId).stoneMinion

canWaterEnter(s, hexId) ==
    /\ ~hasToken(s, hexId, "mountain")
    /\ ~getHex(s, hexId).stoneMinion

canFireEnd(s, hexId) ==
    /\ ~hasToken(s, hexId, "mountain")
    /\ ~hasToken(s, hexId, "lake")
    /\ ~getHex(s, hexId).stoneMinion

FireBonusSupply == 4

\* the range bonus with the threshold one fire token higher
getFireMovementBonusAtFive(s) ==
    IF supplyOf(s.players["fire"], "fire") <= 5 THEN 1 ELSE 0

getFireMovementBonus(s) ==
    IF supplyOf(s.players["fire"], "fire") <= FireBonusSupply THEN 1 ELSE 0

handleEarthConversion(s, hexId) ==
    IF hasToken(s, hexId, "lake")
    THEN LET s1 == destroyToken(s, hexId, "lake")
         IN IF canTakeFromSupply(s1, "earth", "forest")
            THEN addToken(takeFromSupply(s1, "earth", "forest"), hexId, "forest")
            ELSE s1
    ELSE s

\* a fog auto-deploy after every lake placement
autoDeployFogAlways(s, hexId) ==
    IF supplyOf(s.players["water"], "fog") > 0
    THEN addToken(takeFromSupply(s, "water", "fog"), hexId, "fog")
    ELSE s

\* the fog auto-deploy that follows the placement of the last lake
autoDeployFog(s, hexId) ==
    IF supplyOf(s.players["water"], "lake") = 0 /\ supplyOf(s.players["water"], "fog") > 0
    THEN addToken(takeFromSupply(s, "water", "fog"), hexId, "fog")
    ELSE s

handleWaterConversion(s, hexId) ==
    IF hasToken(s, hexId, "fire")
    THEN LET s1 == destroyToken(s, hexId, "fire")
         IN IF canTakeFromSupply(s1, "water", "lake")
            THEN autoDeployFog(addToken(takeFromSupply(s1, "water", "lake"), hexId, "lake"), hexId)
            ELSE s1
    ELSE s

handleFireConversion(s, hexId) ==
    IF hasToken(s, hexId, "forest")
    THEN LET s1 == destroyToken(s, hexId, "forest")
         IN IF canTakeFromSupply(s1, "fire", "fire")
            THEN addToken(takeFromSupply(s1, "fire", "fire"), hexId, "fire")
            ELSE s1
    ELSE s

handleFireOnEarth(s) ==
    LET earth == getPlayer(s, "earth")
        validMoves == {n \in Range(getNeighbors(earth.hexId)) : canEarthEnd(s, n)}
    IN IF validMoves = {}
       THEN addLog([s EXCEPT !.winner = "fire"], "Earth is trapped! Fire wins!")
       ELSE [s EXCEPT !.pendingForcedMove =
                [kind |-> "move", player |-> "earth", validTargets |-> validMoves]]

\* executeForcedMove that leaves the obligation recorded
executeForcedMoveKeepingObligation(s, targetHex) ==
    addLog(setElementalOnHex(handleEarthConversion(s, targetHex), targetHex, "earth"),
           "Earth forced to move")

executeForcedMove(s, targetHex) ==
    LET s1 == setElementalOnHex(handleEarthConversion(s, targetHex), targetHex, "earth")
    IN [addLog(s1, "Earth forced to move") EXCEPT !.pendingForcedMove = NoForcedMove(Null)]

\* fog hexes in board (id) order
getFogTokenHexes(s) == SetToSortedSeq({id \in ALL_HEX_IDS : hasToken(s, id, "fog")})

\* getFogMoveTargets: the fog hex and every hex within range steps of it
getFogMoveTargets(s, fogHex, range) ==
    {fogHex} \cup getReachableHexes(fogHex, range, ALL_HEX_IDS, ALL_HEX_IDS)

moveFog(s, fromHex, toHex) ==
    IF fromHex = toHex THEN s
    ELSE addLog(addToken(removeToken(s, fromHex, "fog"), toHex, "fog"), "Fog moved")

\* ------------------------------------------------------------------------
\* ActionExecutor: start-of-turn abilities
\* ------------------------------------------------------------------------
getStoneMinonMoveTargets(s) ==
    LET minionHex == getStoneMinionHex(s)
    IN IF minionHex = NoHex THEN {}
       ELSE {n \in Range(getNeighbors(minionHex)) : n # s.players["earth"].hexId}

getWaterSOTTargets(s) ==
    LET water == getPlayer(s, "water")
    IN {n \in Range(getNeighbors(water.hexId)) : canWaterEnter(s, n)}
       \cup {id \in ALL_HEX_IDS :
                /\ id # water.hexId
                /\ (hasToken(s, id, "lake") \/ hasToken(s, id, "fog"))
                /\ ~hasToken(s, id, "mountain")
                /\ ~getHex(s, id).stoneMinion}

getFireSOTTargets(s) ==
    LET fire == getPlayer(s, "fire")
    IN (IF ~hasToken(s, fire.hexId, "fire") THEN {fire.hexId} ELSE {})
       \cup {n \in ALL_HEX_IDS :
                /\ \E id \in ALL_HEX_IDS : hasToken(s, id, "fire") /\ n \in NeighborSet[id]
                /\ Len(nonFogTokens(s, n)) = 0
                /\ ~getHex(s, n).stoneMinion}

getSOTValidTargets(s) ==
    CASE currentPlayer(s) = "earth" -> getStoneMinonMoveTargets(s)
      [] currentPlayer(s) = "water" -> getWaterSOTTargets(s)
      [] currentPlayer(s) = "fire" -> getFireSOTTargets(s)

\* destroy every token of the hex, one destroyToken per element of the copy
RECURSIVE destroyAll(_, _, _)
destroyAll(s, hexId, toks) ==
    IF Len(toks) = 0 THEN s
    ELSE destroyAll(destroyToken(s, hexId, Head(toks)), hexId, Tail(toks))

executeEarthSOT(s, targetHex) ==
    LET s1 == destroyAll(s, targetHex, getHex(s, targetHex).tokens)
    IN addLog(setStoneMinion(s1, targetHex), "Moved Stone Minion")

\* the fog flag raised by every start-of-turn move of Water, teleports too
executeWaterSOTAnyDistance(s, targetHex) ==
    LET s1 == setElementalOnHex(handleWaterConversion(s, targetHex), targetHex, "water")
    IN addLog([s1 EXCEPT !.pendingFogMove = "true"], "Water start-of-turn: moved")

executeWaterSOT(s, targetHex) ==
    LET oldHex == s.players["water"].hexId
        isMove == hexDistance(oldHex, targetHex) = 1 /\ includes(getNeighbors(oldHex), targetHex)
        s1 == setElementalOnHex(handleWaterConversion(s, targetHex), targetHex, "water")
        s2 == IF isMove THEN [s1 EXCEPT !.pendingFogMove = "true"] ELSE s1
    IN addLog(s2, "Water start-of-turn: moved")

executeFireSOT(s, targetHex) ==
    IF ~canTakeFromSupply(s, "fire", "fire") THEN s
    ELSE LET s1 == addToken(takeFromSupply(s, "fire", "fire"), targetHex, "fire")
             s2 == IF targetHex = s1.players["earth"].hexId THEN handleFireOnEarth(s1) ELSE s1
         IN addLog(s2, "Fire start-of-turn: placed Fire")

\* the winner recorded when a win condition holds
recordWinner(s) ==
    IF checkWinConditions(s) # Null THEN [s EXCEPT !.winner = checkWinConditions(s)] ELSE s

executeSOT(s, targetHex) ==
    recordWinner([(CASE currentPlayer(s) = "earth" -> executeEarthSOT(s, targetHex)
                     [] currentPlayer(s) = "water" -> executeWaterSOT(s, targetHex)
                     [] currentPlayer(s) = "fire" -> executeFireSOT(s, targetHex))
                  EXCEPT !.sotUsed = TRUE])

\* ------------------------------------------------------------------------
\* ActionExecutor: Earth actions
\* ------------------------------------------------------------------------
EarthEnterSet(s) == {h \in ALL_HEX_IDS : canEarthEnter(s, h)}
EarthPassSet(s) == {h \in ALL_HEX_IDS : canEarthPassThrough(s, h)}

UprootRange == 3
UprootForestRange == 4

\* getUprootTargets without the filter on the hex Earth ends on
getUprootTargetsUnfiltered(s) ==
    LET range == IF countTokensOnBoard(s, "forest") > 0 THEN UprootForestRange ELSE UprootRange
    IN getReachableHexes(s.players["earth"].hexId, range, EarthEnterSet(s), EarthPassSet(s))

getUprootTargets(s) ==
    LET range == IF countTokensOnBoard(s, "forest") > 0 THEN UprootForestRange ELSE UprootRange
    IN {h \in getReachableHexes(s.players["earth"].hexId, range, EarthEnterSet(s), EarthPassSet(s)) :
            canEarthEnd(s, h)}

executeUproot(s, targetHex) ==
    setElementalOnHex(handleEarthConversion(s, targetHex), targetHex, "earth")

getRaiseMountainMoveTargets(s) ==
    {s.players["earth"].hexId}
    \cup {n \in Range(getNeighbors(s.players["earth"].hexId)) : canEarthEnd(s, n)}

MaxMountains == 4

getRaiseMountainPlaceTargets(s) ==
    IF countTokensOnBoard(s, "mountain") < MaxMountains
    THEN {id \in ALL_HEX_IDS : isHexEmpty(s, id)}
    ELSE {id \in ALL_HEX_IDS : hasToken(s, id, "mountain")}

\* the move of executeRaiseMountain
executeRaiseMountainMove(s, moveTarget) ==
    IF moveTarget # s.players["earth"].hexId
    THEN setElementalOnHex(handleEarthConversion(s, moveTarget), moveTarget, "earth")
    ELSE s

executeRaiseMountain(s, moveTarget, placeTarget) ==
    LET s1 == executeRaiseMountainMove(s, moveTarget)
    IN IF countTokensOnBoard(s1, "mountain") >= MaxMountains THEN s1
       ELSE IF canTakeFromSupply(s1, "earth", "mountain")
            THEN addToken(takeFromSupply(s1, "earth", "mountain"), placeTarget, "mountain")
            ELSE s1

getLandslideMoveTargets(s) ==
    LET range == countTokensOnBoard(s, "mountain")
    IN IF range = 0 THEN {s.players["earth"].hexId}
       ELSE {s.players["earth"].hexId}
            \cup {h \in getReachableHexes(s.players["earth"].hexId, range,
                                          EarthEnterSet(s), EarthPassSet(s)) : canEarthEnd(s, h)}

getLandslideDestroyTargets(s) == {id \in ALL_HEX_IDS : hasToken(s, id, "mountain")}

\* chainTokens without the line that skips fog: fog is destroyed like any
\* other token of the neighbour
RECURSIVE chainTokensFogDestroyed(_, _, _, _)
chainTokensFogDestroyed(s, n, toks, pushed) ==
    IF Len(toks) = 0 THEN [s |-> s, pushed |-> pushed]
    ELSE IF Head(toks) = "mountain"
    THEN chainTokensFogDestroyed(s, n, Tail(toks), Append(pushed, n))
    ELSE chainTokensFogDestroyed(destroyToken(s, n, Head(toks)), n, Tail(toks), pushed)

\* the inner loop of chainDestroyMountain over the copy of one neighbour's
\* tokens: returns the state and the hexes pushed on the stack
RECURSIVE chainTokens(_, _, _, _)
chainTokens(s, n, toks, pushed) ==
    IF Len(toks) = 0 THEN [s |-> s, pushed |-> pushed]
    ELSE IF Head(toks) = "fog" THEN chainTokens(s, n, Tail(toks), pushed)
    ELSE IF Head(toks) = "mountain" THEN chainTokens(s, n, Tail(toks), Append(pushed, n))
    ELSE chainTokens(destroyToken(s, n, Head(toks)), n, Tail(toks), pushed)

\* the loop over the neighbours of a destroyed mountain
RECURSIVE chainNeighbors(_, _, _)
chainNeighbors(s, ns, pushed) ==
    IF Len(ns) = 0 THEN [s |-> s, pushed |-> pushed]
    ELSE LET r == chainTokens(s, Head(ns), getHex(s, Head(ns)).tokens, pushed)
         IN chainNeighbors(r.s, Tail(ns), r.pushed)

\* the while loop: toProcess is a stack (pop takes the last element)
RECURSIVE chainLoop(_, _, _)
chainLoop(s, toProcess, processed) ==
    IF Len(toProcess) = 0 THEN [s |-> s, processed |-> processed]
    ELSE LET current == toProcess[Len(toProcess)]
             rest == SubSeq(toProcess, 1, Len(toProcess) - 1)
         IN IF current \in processed THEN chainLoop(s, rest, processed)
            ELSE IF hasToken(s, current, "mountain")
                 THEN LET r == chainNeighbors(destroyToken(s, current, "mountain"),
                                              getNeighbors(current), <<>>)
                      IN chainLoop(r.s, rest \o r.pushed, processed \cup {current})
                 ELSE chainLoop(s, rest, processed \cup {current})

chainDestroyMountain(s, hexId) == chainLoop(s, <<hexId>>, {}).s

\* destroyTarget = NoHex stands for undefined
executeLandslide(s, moveTarget, destroyTarget) ==
    LET s1 == IF moveTarget # s.players["earth"].hexId
              THEN setElementalOnHex(handleEarthConversion(s, moveTarget), moveTarget, "earth")
              ELSE s
    IN IF destroyTarget # NoHex THEN chainDestroyMountain(s1, destroyTarget) ELSE s1

getSproutTargets(s) ==
    {id \in ALL_HEX_IDS : hasToken(s, id, "lake")
                          /\ \E n \in NeighborSet[id] : hasToken(s, n, "forest")}

executeSprout(s, lakeHex) ==
    LET s1 == destroyToken(s, lakeHex, "lake")
    IN IF canTakeFromSupply(s1, "earth", "forest")
       THEN addToken(takeFromSupply(s1, "earth", "forest"), lakeHex, "forest")
       ELSE s1

\* ------------------------------------------------------------------------
\* ActionExecutor: Water actions
\* ------------------------------------------------------------------------
getMoseyTargets(s) ==
    {s.players["water"].hexId}
    \cup {n \in Range(getNeighbors(s.players["water"].hexId)) : canWaterEnter(s, n)}

executeMosey(s, targetHex) ==
    IF targetHex = s.players["water"].hexId THEN s
    ELSE setElementalOnHex(handleWaterConversion(s, targetHex), targetHex, "water")

ConjureRange == 3

getConjureTargets(s) ==
    IF supplyOf(s.players["water"], "lake") > 0
    THEN {id \in ALL_HEX_IDS : hexDistance(s.players["water"].hexId, id) <= ConjureRange
                               /\ isHexEmpty(s, id)}
    ELSE {id \in ALL_HEX_IDS : hasToken(s, id, "lake")}

\* the loop over targets.slice(0, 2)
RECURSIVE conjureLoop(_, _)
conjureLoop(s, targets) ==
    IF Len(targets) = 0 THEN s
    ELSE IF canTakeFromSupply(s, "water", "lake")
         THEN conjureLoop(autoDeployFog(addToken(takeFromSupply(s, "water", "lake"),
                                                 Head(targets), "lake"), Head(targets)),
                          Tail(targets))
         ELSE conjureLoop(s, Tail(targets))

executeConjure(s, targets) ==
    conjureLoop(s, SubSeq(targets, 1, IF Len(targets) < 2 THEN Len(targets) ELSE 2))

getSurfTargets(s) ==
    IF ~isShore(s.players["water"].hexId) THEN {}
    ELSE {id \in ALL_HEX_IDS : id # s.players["water"].hexId /\ isShore(id) /\ isHexEmpty(s, id)}

executeSurf(s, targetHex) == setElementalOnHex(s, targetHex, "water")

getRematerializeTargets(s) == {id \in ALL_HEX_IDS : hasToken(s, id, "fog")}

executeRematerialize(s, fogHex) ==
    LET oldHex == s.players["water"].hexId
    IN setElementalOnHex(addToken(removeToken(s, fogHex, "fog"), oldHex, "fog"), fogHex, "water")

\* ------------------------------------------------------------------------
\* ActionExecutor: Fire actions
\* ------------------------------------------------------------------------
SmokeDashRange == 2
FlameDashRange == 3
FirewallRange == 3

\* the union of the hexes of the lines of getLineHexes
LineHexSet(from, range) ==
    UNION {Range(LineInDirection(from, d, range)) : d \in 1..6}

getSmokeDashTargets(s) ==
    {h \in LineHexSet(s.players["fire"].hexId, SmokeDashRange + getFireMovementBonus(s)) :
        canFireEnd(s, h)}

executeSmokeDash(s, targetHex) ==
    setElementalOnHex(handleFireConversion(s, targetHex), targetHex, "fire")

\* the hexes of one line that the loop visits before its break
FlameDashVisited(s, line) ==
    LET Blocks(i) == hasToken(s, line[i], "mountain") \/ hasToken(s, line[i], "lake")
    IN {line[i] : i \in {j \in 1..Len(line) : \A k \in 1..(j-1) : ~Blocks(k)}}

getFlameDashTargets(s) ==
    LET range == FlameDashRange + getFireMovementBonus(s)
    IN {h \in UNION {FlameDashVisited(s, LineInDirection(s.players["fire"].hexId, d, range)) :
                        d \in 1..6} : canFireEnd(s, h)}

canFlameDashPlaceFirst(s) ==
    /\ ~hasToken(s, s.players["fire"].hexId, "fire")
    /\ supplyOf(s.players["fire"], "fire") > 0

\* executeFlameDashMove that places on the destination whatever the order
executeFlameDashMoveAlwaysPlacing(s, targetHex, placeFireOnDest) ==
    LET s1 == setElementalOnHex(handleFireConversion(s, targetHex), targetHex, "fire")
    IN IF ~hasToken(s1, targetHex, "fire") /\ canTakeFromSupply(s1, "fire", "fire")
       THEN addToken(takeFromSupply(s1, "fire", "fire"), targetHex, "fire")
       ELSE s1

executeFlameDashMove(s, targetHex, placeFireOnDest) ==
    LET s1 == setElementalOnHex(handleFireConversion(s, targetHex), targetHex, "fire")
    IN IF placeFireOnDest /\ ~hasToken(s1, targetHex, "fire") /\ canTakeFromSupply(s1, "fire", "fire")
       THEN addToken(takeFromSupply(s1, "fire", "fire"), targetHex, "fire")
       ELSE s1

executeFlameDash(s, targetHex) == executeFlameDashMove(s, targetHex, TRUE)

\* getConnectedFire: start and every fire hex linked to it through fire hexes
RECURSIVE connectedLoop(_, _, _)
connectedLoop(s, queue, connected) ==
    IF Len(queue) = 0 THEN connected
    ELSE LET fresh == SelectSeq(getNeighbors(Head(queue)),
                                LAMBDA n : n \notin connected /\ hasToken(s, n, "fire"))
         IN connectedLoop(s, Tail(queue) \o fresh, connected \cup Range(fresh))

getConnectedFire(s, start) == connectedLoop(s, <<start>>, {start})

\* getFireGroups: a group is represented by the set of its hexes, which
\* determines its id (the sorted hexes joined by commas)
getFireGroups(s) ==
    {getConnectedFire(s, fh) : fh \in {id \in ALL_HEX_IDS : hasToken(s, id, "fire")}}

getFirestormPlacementTargetsForGroups(s, groups) ==
    {n \in ALL_HEX_IDS :
        /\ \E g \in groups : \E fh \in g : n \in NeighborSet[fh]
        /\ ~hasToken(s, n, "mountain") /\ ~hasToken(s, n, "lake")
        /\ ~hasToken(s, n, "fire")
        /\ (Len(nonFogTokens(s, n)) = 0 \/ hasToken(s, n, "forest"))}

getFirestormPlacementTargets(s) == getFirestormPlacementTargetsForGroups(s, getFireGroups(s))

placeFirestormToken(s, hex) ==
    LET s1 == IF hasToken(s, hex, "forest") THEN destroyToken(s, hex, "forest") ELSE s
    IN IF canTakeFromSupply(s1, "fire", "fire")
       THEN addToken(takeFromSupply(s1, "fire", "fire"), hex, "fire")
       ELSE s1

getFirestormMoveTargets(s) ==
    LET fire == getPlayer(s, "fire")
        bonus == getFireMovementBonus(s)
        connected == getConnectedFire(s, fire.hexId)
    IN {fire.hexId}
       \cup (IF hasToken(s, fire.hexId, "fire")
             THEN connected
                  \cup (IF bonus > 0
                        THEN {n \in ALL_HEX_IDS : /\ \E fh \in connected : n \in NeighborSet[fh]
                                                  /\ n \notin connected
                                                  /\ canFireEnd(s, n)}
                        ELSE {})
             ELSE IF bonus > 0
                  THEN {n \in NeighborSet[fire.hexId] : canFireEnd(s, n)}
                  ELSE {})

\* the loop over placed: handleFireOnEarth once per placed hex that is Earth's
RECURSIVE firestormPlacedLoop(_, _)
firestormPlacedLoop(s, placed) ==
    IF Len(placed) = 0 THEN s
    ELSE firestormPlacedLoop(IF Head(placed) = s.players["earth"].hexId
                             THEN handleFireOnEarth(s) ELSE s,
                             Tail(placed))

\* targets = placed hexes followed by the move target
executeFirestorm(s, targets) ==
    LET moveTarget == IF Len(targets) = 0 THEN NoHex ELSE targets[Len(targets)]
        placed == IF Len(targets) = 0 THEN <<>> ELSE SubSeq(targets, 1, Len(targets) - 1)
        s1 == firestormPlacedLoop(s, placed)
    IN IF moveTarget # NoHex /\ moveTarget # s1.players["fire"].hexId
       THEN setElementalOnHex(handleFireConversion(s1, moveTarget), moveTarget, "fire")
       ELSE s1

getFirewallDirectionHexes(s) == LineHexSet(s.players["fire"].hexId, FirewallRange)

\* getFirewallPreview: the hexes, in line order, that would receive fire
getFirewallPreview(s, directionHex) ==
    IF getLinePath(s.players["fire"].hexId, directionHex).isNull THEN <<>>
    ELSE LET lines == getLineHexes(s.players["fire"].hexId, FirewallRange)
             hit == {i \in 1..Len(lines) : includes(lines[i], directionHex)}
         IN IF hit = {} THEN <<>>
            ELSE SelectSeq(lines[CHOOSE i \in hit : \A j \in hit : i <= j],
                           LAMBDA h : Len(nonFogTokens(s, h)) = 0 /\ ~getHex(s, h).stoneMinion)

RECURSIVE firewallLoop(_, _)
firewallLoop(s, toPlace) ==
    IF Len(toPlace) = 0 THEN s
    ELSE firewallLoop(IF canTakeFromSupply(s, "fire", "fire")
                      THEN addToken(takeFromSupply(s, "fire", "fire"), Head(toPlace), "fire")
                      ELSE s,
                      Tail(toPlace))

executeFirewall(s, directionHex) == firewallLoop(s, getFirewallPreview(s, directionHex))

\* ------------------------------------------------------------------------
\* ActionExecutor: dispatch
\* ------------------------------------------------------------------------
getValidTargets(s, actionId) ==
    CASE actionId = "uproot" -> getUprootTargets(s)
      [] actionId = "raise-mountain" -> getRaiseMountainMoveTargets(s)
      [] actionId = "landslide" -> getLandslideMoveTargets(s)
      [] actionId = "sprout" -> getSproutTargets(s)
      [] actionId = "mosey" -> getMoseyTargets(s)
      [] actionId = "conjure" -> getConjureTargets(s)
      [] actionId = "surf" -> getSurfTargets(s)
      [] actionId = "rematerialize" -> getRematerializeTargets(s)
      [] actionId = "smoke-dash" -> getSmokeDashTargets(s)
      [] actionId = "flame-dash" -> getFlameDashTargets(s)
      [] actionId = "firestorm" -> getFirestormPlacementTargets(s)
      [] actionId = "firewall" -> getFirewallDirectionHexes(s)
      [] OTHER -> {}

\* targets[i], NoHex when the array is shorter
At(targets, i) == IF i <= Len(targets) THEN targets[i] ELSE NoHex

\* executeAction on targets that are all hexes of the board where the callee
\* dereferences them
executeAction(s, actionId, targets) ==
    CASE actionId = "uproot" -> executeUproot(s, At(targets, 1))
      [] actionId = "raise-mountain" -> executeRaiseMountain(s, At(targets, 1), At(targets, 2))
      [] actionId = "landslide" -> executeLandslide(s, At(targets, 1), At(targets, 2))
      [] actionId = "sprout" -> executeSprout(s, At(targets, 1))
      [] actionId = "mosey" -> executeMosey(s, At(targets, 1))
      [] actionId = "conjure" -> executeConjure(s, targets)
      [] actionId = "surf" -> executeSurf(s, At(targets, 1))
      [] actionId = "rematerialize" -> executeRematerialize(s, At(targets, 1))
      [] actionId = "smoke-dash" -> executeSmokeDash(s, At(targets, 1))
      [] actionId = "flame-dash" -> executeFlameDash(s, At(targets, 1))
      [] actionId = "firestorm" -> executeFirestorm(s, targets)
      [] actionId = "firewall" -> executeFirewall(s, At(targets, 1))
      [] OTHER -> s

\* the actions executeAction knows
ExecutableActions ==
    (Range(EARTH_ACTIONS) \cup Range(WATER_ACTIONS) \cup Range(FIRE_ACTIONS)) \ {"special"}

\* the actions whose executor reads the hex of targets[0] before it writes
\* anything: with targets[0] undefined the read throws a TypeError
ReadsFirstTarget ==
    {"uproot", "raise-mountain", "landslide", "sprout", "mosey", "rematerialize",
     "smoke-dash", "flame-dash", "firewall"}

\* the outcome of a call: the state it leaves and what the caller gets, the
\* description string ("description"), the empty string ("") or a thrown
\* TypeError
Outcome(s, result) == [state |-> s, result |-> result]

\* executeRaiseMountain(moveTarget, undefined): the move is applied, the
\* mountain is taken from the supply, and addToken(undefined) throws
raiseMountainNoPlace(s, moved) ==
    IF countTokensOnBoard(moved, "mountain") >= MaxMountains THEN Outcome(moved, "description")
    ELSE IF canTakeFromSupply(moved, "earth", "mountain")
    THEN Outcome(takeFromSupply(moved, "earth", "mountain"), "TypeError")
    ELSE Outcome(moved, "description")

\* executeAction on any array of hexes, missing elements included
executeActionCall(s, actionId, targets) ==
    IF actionId \in ReadsFirstTarget /\ Len(targets) = 0 THEN Outcome(s, "TypeError")
    ELSE IF actionId = "surf" /\ Len(targets) = 0
    THEN Outcome(clearElemental(s, "water"), "TypeError")
    ELSE IF actionId = "raise-mountain" /\ Len(targets) = 1
    THEN raiseMountainNoPlace(s, executeRaiseMountainMove(s, targets[1]))
    ELSE Outcome(executeAction(s, actionId, targets),
                 IF actionId \in ExecutableActions THEN "description" ELSE "")

\* ------------------------------------------------------------------------
\* TurnManager
\* ------------------------------------------------------------------------
\* a marker that is never written
setActionMarkerUnrecorded(s, action) == s

setActionMarker(s, action) == [s EXCEPT !.players[currentPlayer(s)].actionMarker = action]

endTurn(s) == advanceTurn(s)

\* ------------------------------------------------------------------------
\* HexInteraction and GameDialog.
\* A world w is the whole interface state: the live GameState, the saved
\* snapshot (<<>> for null), the private fields of HexInteraction and the
\* dialog on screen.  Every handler maps a world to the world it leaves.
\* Play is hotseat: localPlayer is null and there is no network controller.
\* ------------------------------------------------------------------------
\* the dialog on screen: kind names the GameDialog.show* call ("none" after
\* hide()), cancel tells whether a cancel callback (onUndo) was given, and
\* hexId is the hex captured by the start-of-turn confirm closure
Dlg(kind, cancel, hexId) == [kind |-> kind, cancel |-> cancel, hexId |-> hexId]

\* dialogs whose overlay lets hex clicks through (pointerEvents none), and
\* the hidden dialog
NonBlocking == {"none", "sot", "info", "infoSkipFirestorm", "infoSkipFog"}

InitUI ==
    [selectedAction |-> Null, actionTargets |-> <<>>, currentStep |-> 0,
     validTargets |-> {}, pendingFogMoves |-> <<>>, fogMoveRange |-> 0,
     postFogCallback |-> Null, postForcedMoveCallback |-> Null,
     flameDashPlacedFirst |-> FALSE, raiseMountainPlaceFirst |-> FALSE,
     firestormGroups |-> {}, firestormExtendedGroupIds |-> {}, firestormMaxTokens |-> 0,
     activeSpecialCardId |-> Null, waterHexBeforeMosey |-> NoHex]

\* renderAll when state.phase is CHOOSE_ACTION
showActionChoice(w) == [w EXCEPT !.dialog = Dlg("actionChoice", FALSE, NoHex)]

onSOTSkip(w) ==
    showActionChoice([w EXCEPT !.state.phase = "CHOOSE_ACTION", !.state.sotUsed = FALSE])

\* onSOTStart once the targets are known
offerSOT(w, targets) ==
    IF targets = {} THEN onSOTSkip(w)
    ELSE [w EXCEPT !.ui.validTargets = targets,
                   !.state.phase = "EXECUTING",
                   !.state.pendingAction = Null,
                   !.state.stepInstruction = "Use Start of Turn ability",
                   !.dialog = Dlg("sot", FALSE, NoHex)]

onSOTStart(w) ==
    offerSOT([w EXCEPT !.savedState = <<clone(w.state)>>], getSOTValidTargets(w.state))

renderAll(w) ==
    IF w.state.phase = "START_OF_TURN" THEN onSOTStart(w)
    ELSE IF w.state.phase = "CHOOSE_ACTION" THEN showActionChoice(w)
    ELSE w

\* checkWin: the world after a detected win
showVictory(w) ==
    [w EXCEPT !.state.winner = checkWinConditions(w.state),
              !.dialog = Dlg("victory", FALSE, NoHex)]

\* the callbacks handed to startFogMovePhase, by name
runFogCallback(w, cb) ==
    IF cb \notin {"chooseAction", "endTurn"} THEN w
    ELSE renderAll(IF cb = "chooseAction" THEN [w EXCEPT !.state.phase = "CHOOSE_ACTION"]
                   ELSE [w EXCEPT !.state = endTurn(@)])

promptNextFogMove(w) ==
    IF Len(w.ui.pendingFogMoves) = 0
    THEN runFogCallback([w EXCEPT !.ui.postFogCallback = Null, !.ui.fogMoveRange = 0],
                        w.ui.postFogCallback)
    ELSE [w EXCEPT !.ui.validTargets =
                        getFogMoveTargets(w.state, w.ui.pendingFogMoves[1], w.ui.fogMoveRange),
                   !.state.stepInstruction = "Move your Fog (click its hex to skip)",
                   !.state.phase = "EXECUTING",
                   !.dialog = Dlg("infoSkipFog", FALSE, NoHex)]

\* the Skip button of the fog dialog: skip all remaining fog moves
onFogSkipAll(w) ==
    runFogCallback([w EXCEPT !.ui.pendingFogMoves = <<>>, !.ui.postFogCallback = Null,
                             !.ui.fogMoveRange = 0, !.dialog = Dlg("none", FALSE, NoHex)],
                   w.ui.postFogCallback)

startFogMovePhase(w, range, callback) ==
    LET fogHexes == getFogTokenHexes(w.state)
    IN IF Len(fogHexes) = 0 THEN runFogCallback(w, callback)
       ELSE promptNextFogMove([w EXCEPT !.ui.pendingFogMoves = fogHexes,
                                        !.ui.fogMoveRange = range,
                                        !.ui.postFogCallback = callback])

handleFogMoveClick(w, hexId) ==
    LET fogHex == w.ui.pendingFogMoves[1]
        w1 == [w EXCEPT !.ui.pendingFogMoves = Tail(@),
                        !.state = moveFog(@, fogHex, hexId)]
    IN IF checkWinConditions(w1.state) # Null THEN showVictory(w1)
       ELSE promptNextFogMove(IF fogHex # hexId THEN renderAll(w1) ELSE w1)

finishSOT(w) ==
    IF currentPlayer(w.state) = "water" /\ hasPendingFogMove(w.state)
    THEN IF Len(getFogTokenHexes(w.state)) > 0
         THEN startFogMovePhase([w EXCEPT !.state.pendingFogMove = "false"], 1, "chooseAction")
         ELSE showActionChoice([w EXCEPT !.state.pendingFogMove = "false",
                                         !.state.phase = "CHOOSE_ACTION"])
    ELSE showActionChoice([w EXCEPT !.state.phase = "CHOOSE_ACTION"])

\* finishTurn up to the turn banner: the resets and turnMgr.endTurn()
finishTurnToBanner(w) ==
    [w EXCEPT
        !.ui.selectedAction = Null, !.ui.actionTargets = <<>>, !.ui.currentStep = 0,
        !.savedState = <<>>,
        !.ui.flameDashPlacedFirst = FALSE, !.ui.raiseMountainPlaceFirst = FALSE,
        !.ui.firestormGroups = {}, !.ui.firestormExtendedGroupIds = {},
        !.ui.firestormMaxTokens = 0, !.ui.activeSpecialCardId = Null,
        !.ui.waterHexBeforeMosey = NoHex,
        !.state = endTurn([@ EXCEPT !.stepInstruction = ""])]

\* the banner's callback is renderAll
finishTurn(w) == renderAll(finishTurnToBanner(w))

finishActionWithFogCheck(w) ==
    LET wasMosey == w.ui.selectedAction = "mosey"
        didMove == /\ wasMosey
                   /\ w.ui.waterHexBeforeMosey # NoHex
                   /\ w.ui.waterHexBeforeMosey # w.state.players["water"].hexId
    IN IF wasMosey /\ didMove
       THEN LET w1 == [w EXCEPT !.ui.selectedAction = Null, !.ui.actionTargets = <<>>,
                                !.ui.currentStep = 0, !.savedState = <<>>,
                                !.state.stepInstruction = "",
                                !.ui.waterHexBeforeMosey = NoHex]
            IN IF Len(getFogTokenHexes(w1.state)) > 0
               THEN startFogMovePhase(w1, 1, "endTurn")
               ELSE renderAll([w1 EXCEPT !.state = endTurn(@)])
       ELSE finishTurn([w EXCEPT !.ui.waterHexBeforeMosey = NoHex])

\* the callbacks handed to startForcedMovePhase, by name
runForcedMoveCallback(w, cb) ==
    CASE cb = "finishSOT" -> finishSOT(w)
      [] cb = "finishTurn" -> finishTurn(w)
      [] cb = "finishActionWithFogCheck" -> finishActionWithFogCheck(w)
      [] OTHER -> w

startForcedMovePhase(w, callback) ==
    IF ~hasPendingForcedMove(w.state) THEN runForcedMoveCallback(w, callback)
    ELSE [w EXCEPT !.ui.postForcedMoveCallback = callback,
                   !.ui.validTargets = w.state.pendingForcedMove.validTargets,
                   !.state.stepInstruction = "Choose a hex for Kaijom",
                   !.state.phase = "EXECUTING",
                   !.dialog = Dlg("info", FALSE, NoHex)]

handleForcedMoveClick(w, hexId) ==
    LET w1 == [w EXCEPT !.state = executeForcedMove(@, hexId)]
    IN IF checkWinConditions(w1.state) # Null THEN showVictory(w1)
       ELSE runForcedMoveCallback([w1 EXCEPT !.ui.postForcedMoveCallback = Null],
                                  w1.ui.postForcedMoveCallback)

\* the start of a step: targets highlighted, instruction shown, info dialog
\* with a cancel button
beginStep(w, targets, actionId, instruction) ==
    [w EXCEPT !.ui.validTargets = targets,
              !.state.phase = "EXECUTING",
              !.state.pendingAction = actionId,
              !.state.stepInstruction = instruction,
              !.dialog = Dlg("info", TRUE, NoHex)]

Min2(a, b) == IF a < b THEN a ELSE b

FirestormMaxGroups == 3

\* startActionWithInfoDialog once the targets and the fire groups are known
startWithTargets(w, actionId, targets, groups) ==
    IF targets = {}
    THEN showActionChoice([w EXCEPT !.ui.selectedAction = Null, !.state.phase = "CHOOSE_ACTION"])
    ELSE beginStep(IF actionId = "firestorm"
                   THEN [w EXCEPT !.ui.firestormGroups = groups,
                                  !.ui.firestormMaxTokens =
                                        Min2(Cardinality(groups), FirestormMaxGroups)]
                   ELSE w,
                   targets, actionId, "step 0")

startActionWithInfoDialog(w, actionId) ==
    startWithTargets(w, actionId, getValidTargets(w.state, actionId), getFireGroups(w.state))

\* the special-card steps that show targets without opening a dialog
beginSpecialStep(w, targets, instruction) ==
    [w EXCEPT !.ui.validTargets = targets,
              !.state.phase = "EXECUTING",
              !.state.pendingAction = "special",
              !.state.stepInstruction = instruction]

SpecialMoveRange == 2
SpecialLineRange == 3

executeSpecialMove(w, range, ignoreTerrain) ==
    LET hexId == w.state.players[currentPlayer(w.state)].hexId
    IN beginSpecialStep(w, getReachableHexes(hexId, range, ALL_HEX_IDS,
                                             IF ignoreTerrain THEN ALL_HEX_IDS ELSE {}),
                        "Move (ignore terrain)")

executeSpecialMoveLine(w, range) ==
    beginSpecialStep(w, LineHexSet(w.state.players[currentPlayer(w.state)].hexId, range),
                     "Move in a straight line")

executeSpecialTeleportShore(w) ==
    beginSpecialStep(w, {id \in ALL_HEX_IDS : isShore(id) /\ isHexEmpty(w.state, id)},
                     "Teleport to any empty shore hex")

executeSpecialSwap(w) ==
    [beginSpecialStep(w, {w.state.players[t].hexId : t \in Elementals},
                      "Choose the first elemental to swap")
        EXCEPT !.ui.currentStep = 0, !.dialog = Dlg("info", TRUE, NoHex)]

\* shuffled is the outcome of the reshuffle, should useActiveCard run one
handleSpecialAbility(w, shuffled) ==
    LET card == activeCard(w.state.specialDeck)
        w1 == [w EXCEPT !.ui.activeSpecialCardId = card,
                        !.state.specialDeck = useActiveCard(@, shuffled)]
    IN CASE card = Null -> w
         [] card = "start-of-turn" ->
                onSOTStart([w1 EXCEPT !.state.phase = "START_OF_TURN",
                                      !.state.pendingAction = "special"])
         [] card = "move-2-ignore" -> executeSpecialMove(w1, SpecialMoveRange, TRUE)
         [] card = "move-3-line" -> executeSpecialMoveLine(w1, SpecialLineRange)
         [] card = "teleport-shore" -> executeSpecialTeleportShore(w1)
         [] card = "use-any-ability" ->
                renderAll([w1 EXCEPT !.state.phase = "CHOOSE_ACTION",
                                     !.state.pendingAction = "special"])
         [] card = "swap-places" -> executeSpecialSwap(w1)

\* a click on an action card of the action-choice dialog
onActionSelected(w, actionId, shuffled) ==
    LET w1 == [w EXCEPT !.savedState = <<clone(w.state)>>,
                        !.ui.selectedAction = actionId,
                        !.ui.actionTargets = <<>>,
                        !.ui.currentStep = 0,
                        !.ui.flameDashPlacedFirst = FALSE,
                        !.ui.raiseMountainPlaceFirst = FALSE,
                        !.ui.firestormGroups = {},
                        !.ui.firestormExtendedGroupIds = {},
                        !.ui.firestormMaxTokens = 0,
                        !.ui.waterHexBeforeMosey = NoHex,
                        !.dialog = Dlg("none", FALSE, NoHex)]
    IN CASE actionId = "special" -> handleSpecialAbility(w1, shuffled)
         [] actionId = "raise-mountain" ->
                [w1 EXCEPT !.dialog = Dlg("choiceRaiseMountain", FALSE, NoHex)]
         [] actionId = "flame-dash" ->
                IF canFlameDashPlaceFirst(w1.state)
                THEN [w1 EXCEPT !.dialog = Dlg("choiceFlameDash", FALSE, NoHex)]
                ELSE startActionWithInfoDialog(w1, actionId)
         [] OTHER -> startActionWithInfoDialog(w1, actionId)

\* Raise Mountain order choice, button 'Move First'
onRaiseMountainMoveFirst(w) ==
    startActionWithInfoDialog([w EXCEPT !.ui.raiseMountainPlaceFirst = FALSE,
                                        !.dialog = Dlg("none", FALSE, NoHex)],
                              "raise-mountain")

\* Raise Mountain order choice, button 'Place Mountain First'
onRaiseMountainPlaceFirst(w) ==
    LET w1 == [w EXCEPT !.ui.raiseMountainPlaceFirst = TRUE,
                        !.dialog = Dlg("none", FALSE, NoHex)]
        targets == getRaiseMountainPlaceTargets(w1.state)
    IN IF targets = {}
       THEN renderAll([w1 EXCEPT !.ui.selectedAction = Null, !.state.phase = "CHOOSE_ACTION"])
       ELSE beginStep(w1, targets, "raise-mountain", "Place a Mountain on any empty hex")

\* Flame Dash order choice, button 'Place Fire First'
onFlameDashPlaceFirst(w) ==
    LET fireHex == w.state.players["fire"].hexId
        s1 == IF canTakeFromSupply(w.state, "fire", "fire")
              THEN addToken(takeFromSupply(w.state, "fire", "fire"), fireHex, "fire")
              ELSE w.state
        w1 == [w EXCEPT !.ui.flameDashPlacedFirst = TRUE, !.state = s1,
                        !.ui.currentStep = 1, !.dialog = Dlg("none", FALSE, NoHex)]
    IN beginStep(w1, getFlameDashTargets(s1), "flame-dash", "Move in a straight line")

\* Flame Dash order choice, button 'Move First'
onFlameDashMoveFirst(w) ==
    startActionWithInfoDialog([w EXCEPT !.dialog = Dlg("none", FALSE, NoHex)], "flame-dash")

showConfirmDialog(w) == [w EXCEPT !.dialog = Dlg("confirm", TRUE, NoHex)]

\* a live Earth move of the multi-step handlers
liveEarthMove(s, hexId) ==
    IF hexId # s.players["earth"].hexId
    THEN setElementalOnHex(handleEarthConversion(s, hexId), hexId, "earth")
    ELSE s

handleRaiseMountainStep(w, hexId) ==
    LET w1 == [w EXCEPT !.ui.actionTargets = Append(@, hexId)]
    IN IF w.ui.currentStep = 0
       THEN IF w.ui.raiseMountainPlaceFirst
            THEN LET s1 == addToken(w1.state, hexId, "mountain")
                 IN [w1 EXCEPT !.ui.currentStep = 1,
                               !.state = [s1 EXCEPT !.stepInstruction = "Move up to 1 hex"],
                               !.ui.validTargets = getValidTargets(s1, "raise-mountain"),
                               !.dialog = Dlg("info", TRUE, NoHex)]
            ELSE LET s1 == liveEarthMove(w1.state, hexId)
                 IN [w1 EXCEPT !.ui.currentStep = 1,
                               !.state = [s1 EXCEPT !.stepInstruction =
                                                "Place a Mountain on any empty hex"],
                               !.ui.validTargets = getRaiseMountainPlaceTargets(s1),
                               !.dialog = Dlg("info", TRUE, NoHex)]
       ELSE LET s1 == IF w.ui.raiseMountainPlaceFirst
                      THEN liveEarthMove(w1.state, hexId)
                      ELSE addToken(w1.state, hexId, "mountain")
            IN showConfirmDialog([w1 EXCEPT !.state = [s1 EXCEPT !.phase = "CONFIRM"]])

handleLandslideStep(w, hexId) ==
    LET w1 == [w EXCEPT !.ui.actionTargets = Append(@, hexId)]
    IN IF w.ui.currentStep = 0
       THEN LET w2 == [w1 EXCEPT !.ui.currentStep = 1,
                                 !.state = liveEarthMove(@, hexId)]
            IN IF getLandslideDestroyTargets(w2.state) = {}
               THEN showConfirmDialog([w2 EXCEPT !.state.phase = "CONFIRM"])
               ELSE [w2 EXCEPT !.dialog = Dlg("choiceLandslide", FALSE, NoHex)]
       ELSE showConfirmDialog([w1 EXCEPT !.state.phase = "CONFIRM"])

\* Landslide choice, button 'Choose a Mountain'; the targets were computed
\* when the dialog opened, and the state has not changed since
onLandslideChooseMountain(w) ==
    [w EXCEPT !.state.stepInstruction = "Choose a Mountain to destroy",
              !.ui.validTargets = getLandslideDestroyTargets(w.state),
              !.dialog = Dlg("none", FALSE, NoHex)]

\* Landslide choice, button 'Skip'
onLandslideSkip(w) == showConfirmDialog([w EXCEPT !.state.phase = "CONFIRM"])

handleConjureStep(w, hexId) ==
    LET w1 == [w EXCEPT !.ui.actionTargets = Append(@, hexId)]
    IN IF Len(w1.ui.actionTargets) >= 2
       THEN showConfirmDialog([w1 EXCEPT !.state.phase = "CONFIRM"])
       ELSE [w1 EXCEPT !.ui.validTargets = @ \ {hexId},
                       !.state.stepInstruction = "Place 1 more Lake on an empty hex within range",
                       !.dialog = Dlg("info", TRUE, NoHex)]

firestormMoveToMovement(w) ==
    [w EXCEPT !.ui.currentStep = 1,
              !.state.stepInstruction = "Move through connected fire",
              !.ui.validTargets = getFirestormMoveTargets(w.state),
              !.dialog = Dlg("info", TRUE, NoHex)]

\* firestormGroups.find: the groups are listed in the order of their first
\* (lowest) hex
MinOf(S) == CHOOSE x \in S : \A y \in S : x <= y

handleFirestormStep(w, hexId) ==
    IF w.ui.currentStep = 1
    THEN showConfirmDialog([w EXCEPT !.ui.actionTargets = Append(@, hexId),
                                     !.state.phase = "CONFIRM"])
    ELSE LET adjacent == {g \in w.ui.firestormGroups : \E fh \in g : hexId \in NeighborSet[fh]}
             extended == IF adjacent = {} THEN w.ui.firestormExtendedGroupIds
                         ELSE w.ui.firestormExtendedGroupIds
                              \cup {CHOOSE g \in adjacent : \A o \in adjacent : MinOf(g) <= MinOf(o)}
             s1 == placeFirestormToken(w.state, hexId)
             targets1 == Append(w.ui.actionTargets, hexId)
             placed == Len(targets1)
             remaining == w.ui.firestormMaxTokens - placed
             nextTargets == IF remaining > 0
                            THEN getFirestormPlacementTargetsForGroups(
                                    s1, w.ui.firestormGroups \ extended)
                            ELSE {}
             w1 == [w EXCEPT !.ui.firestormExtendedGroupIds = extended,
                             !.state = s1,
                             !.ui.actionTargets = targets1]
         IN IF placed >= w.ui.firestormMaxTokens \/ nextTargets = {}
            THEN firestormMoveToMovement(w1)
            ELSE [w1 EXCEPT !.ui.validTargets = nextTargets,
                            !.state.stepInstruction = "Place fire on a different group",
                            !.dialog = Dlg("infoSkipFirestorm", TRUE, NoHex)]

handleFlameDashStep(w, hexId) ==
    showConfirmDialog([w EXCEPT !.ui.actionTargets = <<hexId>>, !.state.phase = "CONFIRM"])

handleSpecialStep(w, hexId) ==
    LET w1 == [w EXCEPT !.ui.actionTargets = Append(@, hexId)]
    IN IF w.ui.activeSpecialCardId = "swap-places"
       THEN IF Len(w1.ui.actionTargets) = 1
            THEN [w1 EXCEPT !.ui.currentStep = 1,
                            !.ui.validTargets = @ \ {hexId},
                            !.state.stepInstruction = "Choose the second elemental to swap with",
                            !.dialog = Dlg("info", TRUE, NoHex)]
            ELSE showConfirmDialog([w1 EXCEPT !.state.phase = "CONFIRM"])
       ELSE showConfirmDialog(
                [w1 EXCEPT !.state = [setElementalOnHex(@, hexId, currentPlayer(@))
                                        EXCEPT !.phase = "CONFIRM"]])

onHexClick(w0, hexId) ==
    LET w == [w0 EXCEPT !.dialog = Dlg("none", FALSE, NoHex)]
    IN IF Len(w.ui.pendingFogMoves) > 0 THEN handleFogMoveClick(w, hexId)
       ELSE IF hasPendingForcedMove(w.state) THEN handleForcedMoveClick(w, hexId)
       ELSE IF w.state.phase = "EXECUTING" /\ w.ui.selectedAction = Null
       THEN [w EXCEPT !.ui.actionTargets = <<hexId>>,
                      !.state.phase = "CONFIRM",
                      !.dialog = Dlg("confirmSOT", TRUE, hexId)]
       ELSE IF w.ui.selectedAction = Null THEN w
       ELSE CASE w.ui.selectedAction = "raise-mountain" -> handleRaiseMountainStep(w, hexId)
              [] w.ui.selectedAction = "landslide" -> handleLandslideStep(w, hexId)
              [] w.ui.selectedAction = "conjure" -> handleConjureStep(w, hexId)
              [] w.ui.selectedAction = "firestorm" -> handleFirestormStep(w, hexId)
              [] w.ui.selectedAction = "flame-dash" -> handleFlameDashStep(w, hexId)
              [] w.ui.selectedAction = "special" -> handleSpecialStep(w, hexId)
              [] OTHER -> showConfirmDialog([w EXCEPT !.ui.actionTargets = <<hexId>>,
                                                      !.state.phase = "CONFIRM"])

\* what every confirm path does after the executor returns: checkWin, then
\* the forced-move phase or the continuation
afterExecute(w, continuation) ==
    IF checkWinConditions(w.state) # Null THEN showVictory(w)
    ELSE startForcedMovePhase(w, continuation)

\* the confirm closure of the start-of-turn confirm dialog
onConfirmSOT(w0) ==
    LET w == [w0 EXCEPT !.dialog = Dlg("none", FALSE, NoHex),
                        !.state = executeSOT(@, w0.dialog.hexId)]
    IN afterExecute(w, "finishSOT")

\* the body of onConfirm when phase is CONFIRM and an action is selected
onConfirmAction(w) ==
    IF w.ui.selectedAction = "special" /\ w.ui.activeSpecialCardId = "swap-places"
    THEN finishTurn(
            [w EXCEPT !.state =
                        setActionMarker(
                            addLog(setElementalOnHex(
                                       setElementalOnHex(@, w.ui.actionTargets[1],
                                                         getHex(@, w.ui.actionTargets[2]).elemental),
                                       w.ui.actionTargets[2],
                                       getHex(@, w.ui.actionTargets[1]).elemental),
                                   "Swap Places"),
                            "special"),
                      !.ui.activeSpecialCardId = Null])
    ELSE afterExecute(
            IF w.ui.selectedAction = "flame-dash"
            THEN [w EXCEPT !.state =
                        setActionMarker(
                            addLog(executeFlameDashMove(@, w.ui.actionTargets[1],
                                                        ~w.ui.flameDashPlacedFirst),
                                   "Flame Dash"),
                            "flame-dash")]
            ELSE [w EXCEPT !.ui.actionTargets =
                                IF w.ui.selectedAction = "raise-mountain"
                                   /\ w.ui.raiseMountainPlaceFirst
                                THEN <<@[2], @[1]>> ELSE @,
                           !.ui.waterHexBeforeMosey =
                                IF w.ui.selectedAction = "mosey"
                                THEN w.state.players["water"].hexId ELSE @,
                           !.state =
                                setActionMarker(
                                    addLog(executeAction(@, w.ui.selectedAction,
                                                         IF w.ui.selectedAction = "raise-mountain"
                                                            /\ w.ui.raiseMountainPlaceFirst
                                                         THEN <<w.ui.actionTargets[2],
                                                                w.ui.actionTargets[1]>>
                                                         ELSE w.ui.actionTargets),
                                           w.ui.selectedAction),
                                    w.ui.selectedAction)],
            IF w.ui.selectedAction = "flame-dash" THEN "finishTurn"
            ELSE "finishActionWithFogCheck")

\* onConfirm: the landslide confirm of step 1 arrives in phase EXECUTING and
\* takes the same path as a confirm in phase CONFIRM
onConfirm(w) ==
    IF \/ w.state.phase = "CONFIRM" /\ w.ui.selectedAction # Null
       \/ /\ w.state.phase = "EXECUTING"
          /\ w.ui.selectedAction = "landslide"
          /\ w.ui.currentStep = 1
    THEN onConfirmAction([w EXCEPT !.dialog = Dlg("none", FALSE, NoHex),
                                   !.state.phase = "CONFIRM"])
    ELSE [w EXCEPT !.dialog = Dlg("none", FALSE, NoHex)]

\* Object.assign(state, savedState) and the reset of the private fields
onUndo(w0) ==
    LET w == [w0 EXCEPT !.dialog = Dlg("none", FALSE, NoHex)]
        wasSOT == w.ui.selectedAction = Null /\ w.state.phase = "EXECUTING"
        s1 == IF Len(w.savedState) > 0 THEN ObjectAssign(w.state, w.savedState[1]) ELSE w.state
        s2 == IF wasSOT THEN [s1 EXCEPT !.phase = "CHOOSE_ACTION", !.sotUsed = FALSE]
              ELSE IF s1.sotUsed THEN [s1 EXCEPT !.phase = "CHOOSE_ACTION"]
              ELSE [s1 EXCEPT !.phase = "START_OF_TURN"]
    IN renderAll([w EXCEPT !.state = s2, !.ui = InitUI])

\* the Skip button of the firestorm placement dialog
onFirestormSkip(w) == firestormMoveToMovement([w EXCEPT !.dialog = Dlg("none", FALSE, NoHex)])

\* the world after the constructor of HexInteraction on a new GameState
NewWorld(deck) ==
    renderAll([state |-> NewGameState(deck), savedState |-> <<>>, ui |-> InitUI,
               dialog |-> Dlg("none", FALSE, NoHex)])

\* ------------------------------------------------------------------------
\* User events.  An event is a click: on a hex, on an action card, or on a
\* button of the dialog on screen.  A click that the interface does not
\* offer (a hex that is not a valid target, a button that is not shown)
\* changes nothing.
\* ------------------------------------------------------------------------
Ev(type, arg, shuffled) == [type |-> type, arg |-> arg, shuffled |-> shuffled]

Hex(h) == Ev("hex", h, <<>>)
Card(a) == Ev("card", a, <<>>)
Button(b) == Ev("button", b, <<>>)

\* the reshuffle outcomes a click on the Special card can meet
ShuffleChoices(d) ==
    IF Len(d.deck) = 1 /\ ~d.noReshuffle THEN shuffle(DiscardAfterUse(d)) ELSE {<<>>}

\* the buttons of each dialog
Buttons(d) ==
    (CASE d.kind = "sot" -> {"skip"}
       [] d.kind = "choiceRaiseMountain" -> {"Move First", "Place Mountain First"}
       [] d.kind = "choiceFlameDash" -> {"Place Fire First", "Move First"}
       [] d.kind = "choiceLandslide" -> {"Choose a Mountain", "Skip"}
       [] d.kind = "infoSkipFirestorm" -> {"skip"}
       [] d.kind = "infoSkipFog" -> {"skip"}
       [] d.kind \in {"confirm", "confirmSOT"} -> {"confirm"}
       [] OTHER -> {})
    \cup (IF d.cancel THEN {"cancel"} ELSE {})

Offered(w, ev) ==
    CASE ev.type = "hex" -> w.dialog.kind \in NonBlocking /\ ev.arg \in w.ui.validTargets
      [] ev.type = "card" ->
            /\ w.dialog.kind = "actionChoice"
            /\ includes(getActionsForElemental(currentPlayer(w.state)), ev.arg)
            /\ ev.arg # w.state.players[currentPlayer(w.state)].actionMarker
      [] ev.type = "button" -> ev.arg \in Buttons(w.dialog)

OnButton(w, b) ==
    CASE b = "cancel" -> onUndo(w)
      [] b = "confirm" -> IF w.dialog.kind = "confirmSOT" THEN onConfirmSOT(w) ELSE onConfirm(w)
      [] b = "skip" -> (CASE w.dialog.kind = "sot" -> onSOTSkip(w)
                          [] w.dialog.kind = "infoSkipFirestorm" -> onFirestormSkip(w)
                          [] w.dialog.kind = "infoSkipFog" -> onFogSkipAll(w))
      [] b = "Skip" -> onLandslideSkip(w)
      [] b = "Choose a Mountain" -> onLandslideChooseMountain(w)
      [] b = "Move First" -> IF w.dialog.kind = "choiceRaiseMountain"
                             THEN onRaiseMountainMoveFirst(w) ELSE onFlameDashMoveFirst(w)
      [] b = "Place Mountain First" -> onRaiseMountainPlaceFirst(w)
      [] b = "Place Fire First" -> onFlameDashPlaceFirst(w)

Handle(w, ev) ==
    IF ~Offered(w, ev) THEN w
    ELSE CASE ev.type = "hex" -> onHexClick(w, ev.arg)
           [] ev.type = "card" -> onActionSelected(w, ev.arg, ev.shuffled)
           [] ev.type = "button" -> OnButton(w, ev.arg)

\* the world after a sequence of events, each event handled to completion
\* before the next one is delivered
RECURSIVE Replay(_, _)
ReplayRest(w, script) == IF w.state.turnNumber > 0 THEN Replay(w, script) ELSE w

Replay(w, script) ==
    IF Len(script) = 0 THEN w ELSE ReplayRest(Handle(w, Head(script)), Tail(script))

\* ------------------------------------------------------------------------
\* The game as a state machine
\* ------------------------------------------------------------------------
MaxEvents == 6

World == [state |-> state, savedState |-> savedState, ui |-> ui, dialog |-> dialog]

AllActions == Range(EARTH_ACTIONS) \cup Range(WATER_ACTIONS) \cup Range(FIRE_ACTIONS)

NoEvent == Ev("none", NoHex, <<>>)

\* the variables of the other specifications, idle during play
IdleRest ==
    /\ heap = <<>> /\ gRef = 0 /\ sRef = 0 /\ nextAddr = 0
    /\ api = <<>>

\* the decks a new game can start with: one per card that can be on top
StartDecks == {Rotate(buildDeck, 2 * k) : k \in 0..(Len(SPECIAL_CARDS) - 1)}

\* ------------------------------------------------------------------------
\* Start positions.  Exploring every line of play from the first turn is out
\* of reach, so the state machine starts from the new game and from a few
\* positions of later turns.  Each position is the world that Replay reaches
\* from a new game on the line of play written next to it.
\* ------------------------------------------------------------------------
\* one turn: skip the start-of-turn ability, then a single-target action
TurnOf(actionId, hexId) == <<Button("skip"), Card(actionId), Hex(hexId), Button("confirm")>>

\* Earth stays on 32 and raises a mountain on hexId
RaiseMountainTurn(hexId) ==
    <<Button("skip"), Card("raise-mountain"), Button("Move First"), Hex(32), Hex(hexId),
      Button("confirm")>>

\* Earth stays on 32 and destroys nothing
LandslideStayTurn ==
    <<Button("skip"), Card("landslide"), Hex(32), Button("Skip"), Button("confirm")>>

\* Water's first turn after Earth raised a mountain next to the fog of hex 9
LineWater1 == RaiseMountainTurn(15)

\* Fire's first turn with Earth on hex 34, in line with Fire
LineFire1Line == TurnOf("uproot", 34) \o TurnOf("mosey", 2)

\* Fire's first turn with Earth on hex 29, next to the fire token of hex 24
LineFire1Adjacent == TurnOf("uproot", 29) \o TurnOf("mosey", 2)

\* Earth's second turn, mountains on 22 and 15
LineEarth2 == LineWater1 \o TurnOf("mosey", 2) \o TurnOf("smoke-dash", 35)

\* Fire's second turn: mountain on 26, fire on 33, 34, 35, Earth on 32
LineFire2 ==
    RaiseMountainTurn(26) \o TurnOf("mosey", 2) \o TurnOf("firewall", 35)
    \o LandslideStayTurn \o TurnOf("surf", 5)

\* Fire's third turn: Earth on 32 with 26, 27 and 33 blocked
LineFire3 ==
    LineFire2 \o <<Hex(27), Button("confirm")>> \o <<Card("smoke-dash"), Hex(35), Button("confirm")>>
    \o RaiseMountainTurn(1) \o TurnOf("mosey", 5)

\* Earth's second turn with Earth on hex 14, next to the lake of hex 9
LineEarthLake == TurnOf("uproot", 14) \o TurnOf("mosey", 2) \o TurnOf("smoke-dash", 35)

StartLines == {<<>>, LineWater1, LineFire1Line, LineFire1Adjacent, LineEarth2, LineFire2, LineFire3,
               LineEarthLake}

\* the deck of the new game each line starts from; the new game itself is
\* explored with every deck, LineEarthLake with the card 'move-2-ignore' on top
DecksOf(line) ==
    IF line = <<>> THEN StartDecks
    ELSE IF line = LineEarthLake THEN {Rotate(buildDeck, 2)}
    ELSE {Rotate(buildDeck, 0)}

StartPositions == UNION {{Replay(NewWorld(deck), line) : deck \in DecksOf(line)} : line \in StartLines}

Init ==
    /\ \E w \in StartPositions :
          /\ state = w.state
          /\ savedState = w.savedState
          /\ ui = w.ui
          /\ dialog = w.dialog
          /\ atSelect = [active |-> FALSE, cancelled |-> FALSE, state |-> w.state]
    /\ lastEvent = NoEvent
    /\ events = 0
    /\ IdleRest

\* atSelect after an event: the state at the last click on an action card,
\* whether that action is still in progress, and whether the event
\* cancelled it
NextAtSelect(ev) ==
    IF ev.type = "card" THEN [active |-> TRUE, cancelled |-> FALSE, state |-> state]
    ELSE IF ev.type = "button" /\ ev.arg = "cancel"
    THEN [atSelect EXCEPT !.active = FALSE, !.cancelled = atSelect.active]
    ELSE IF ev.type = "button" /\ ev.arg = "confirm"
    THEN [atSelect EXCEPT !.active = FALSE, !.cancelled = FALSE]
    ELSE [atSelect EXCEPT !.cancelled = FALSE]

\* an event is delivered when the interface offers it
Delivered(ev) == events < MaxEvents /\ Offered(World, ev)

\* the world w left by the handler of event ev becomes the next state
Commit(w, ev) ==
    /\ state' = w.state
    /\ savedState' = w.savedState
    /\ ui' = w.ui
    /\ dialog' = w.dialog
    /\ lastEvent' = ev
    /\ atSelect' = NextAtSelect(ev)
    /\ events' = events + 1
    /\ UNCHANGED <<heap, gRef, sRef, nextAddr, api>>

ClickHex ==
    \E h \in ALL_HEX_IDS : Delivered(Hex(h)) /\ Commit(onHexClick(World, h), Hex(h))

ClickActionCard ==
    \E a \in AllActions : \E sh \in ShuffleChoices(state.specialDeck) :
        Delivered(Ev("card", a, sh)) /\ Commit(onActionSelected(World, a, sh), Ev("card", a, sh))

ClickSOTSkip ==
    dialog.kind = "sot" /\ Delivered(Button("skip")) /\ Commit(onSOTSkip(World), Button("skip"))

ClickFirestormSkip ==
    /\ dialog.kind = "infoSkipFirestorm"
    /\ Delivered(Button("skip"))
    /\ Commit(onFirestormSkip(World), Button("skip"))

ClickFogSkip ==
    /\ dialog.kind = "infoSkipFog"
    /\ Delivered(Button("skip"))
    /\ Commit(onFogSkipAll(World), Button("skip"))

ClickRaiseMountainMoveFirst ==
    /\ dialog.kind = "choiceRaiseMountain"
    /\ Delivered(Button("Move First"))
    /\ Commit(onRaiseMountainMoveFirst(World), Button("Move First"))

ClickRaiseMountainPlaceFirst ==
    /\ Delivered(Button("Place Mountain First"))
    /\ Commit(onRaiseMountainPlaceFirst(World), Button("Place Mountain First"))

ClickFlameDashPlaceFirst ==
    /\ Delivered(Button("Place Fire First"))
    /\ Commit(onFlameDashPlaceFirst(World), Button("Place Fire First"))

ClickFlameDashMoveFirst ==
    /\ dialog.kind = "choiceFlameDash"
    /\ Delivered(Button("Move First"))
    /\ Commit(onFlameDashMoveFirst(World), Button("Move First"))

ClickLandslideChoose ==
    /\ Delivered(Button("Choose a Mountain"))
    /\ Commit(onLandslideChooseMountain(World), Button("Choose a Mountain"))

ClickLandslideSkip ==
    Delivered(Button("Skip")) /\ Commit(onLandslideSkip(World), Button("Skip"))

ClickConfirm ==
    /\ dialog.kind = "confirm"
    /\ Delivered(Button("confirm"))
    /\ Commit(onConfirm(World), Button("confirm"))

ClickConfirmSOT ==
    /\ dialog.kind = "confirmSOT"
    /\ Delivered(Button("confirm"))
    /\ Commit(onConfirmSOT(World), Button("confirm"))

\* the Cancel button, a click on the backdrop, or the Escape key
ClickCancel == Delivered(Button("cancel")) /\ Commit(onUndo(World), Button("cancel"))

Next ==
    \/ ClickHex
    \/ ClickActionCard
    \/ ClickSOTSkip
    \/ ClickFirestormSkip
    \/ ClickFogSkip
    \/ ClickRaiseMountainMoveFirst
    \/ ClickRaiseMountainPlaceFirst
    \/ ClickFlameDashPlaceFirst
    \/ ClickFlameDashMoveFirst
    \/ ClickLandslideChoose
    \/ ClickLandslideSkip
    \/ ClickConfirm
    \/ ClickConfirmSOT
    \/ ClickCancel

Spec == Init /\ [][Next]_vars

\* ------------------------------------------------------------------------
\* The executor called directly (specification SpecApi): a caller asks for
\* the legal targets of an action of the faction to move and then calls
\* executeAction with an array of hexes of its choice.
\* ------------------------------------------------------------------------
MaxCalls == 1

\* the arrays a caller passes: no hex, one hex or two hexes of the board
ApiTargetLists == {<<>>} \cup [1..1 -> ALL_HEX_IDS] \cup [1..2 -> ALL_HEX_IDS]

\* the variables of play, idle while the executor is called directly
IdlePlay ==
    /\ savedState = <<>> /\ ui = InitUI /\ dialog = Dlg("none", FALSE, NoHex)
    /\ lastEvent = NoEvent /\ events = 0

InitApi ==
    /\ \E w \in StartPositions :
          /\ state = w.state
          /\ atSelect = [active |-> FALSE, cancelled |-> FALSE, state |-> w.state]
          /\ api = [action |-> Null, legal |-> {}, called |-> FALSE, targets |-> <<>>,
                    before |-> w.state, result |-> "none", calls |-> 0]
    /\ IdlePlay
    /\ heap = <<>> /\ gRef = 0 /\ sRef = 0 /\ nextAddr = 0

\* getValidTargets(actionId)
ApiGetValidTargets ==
    \E a \in AllActions :
        /\ api.calls < MaxCalls
        /\ includes(getActionsForElemental(currentPlayer(state)), a)
        /\ api' = [api EXCEPT !.action = a, !.legal = getValidTargets(state, a),
                              !.called = FALSE]
        /\ UNCHANGED <<state, savedState, ui, dialog, lastEvent, atSelect, events,
                       heap, gRef, sRef, nextAddr>>

\* executeAction(actionId, targets) for the action last asked about
ApiExecuteAction ==
    \E targets \in ApiTargetLists :
        /\ api.calls < MaxCalls
        /\ api.action # Null
        /\ state' = executeActionCall(state, api.action, targets).state
        /\ api' = [api EXCEPT !.called = TRUE, !.targets = targets, !.before = state,
                              !.result = executeActionCall(state, api.action, targets).result,
                              !.calls = @ + 1]
        /\ UNCHANGED <<savedState, ui, dialog, lastEvent, atSelect, events,
                       heap, gRef, sRef, nextAddr>>

NextApi == ApiGetValidTargets \/ ApiExecuteAction

SpecApi == InitApi /\ [][NextApi]_vars

\* ------------------------------------------------------------------------
\* The objects behind a GameState (specification SpecClone).  heap is the
\* object store: heap[a] is the object at address a, an array (a sequence),
\* a Map or a supplies object (a function), or an object whose fields hold
\* values and addresses.  A GameState at address b owns, at fixed offsets
\* from b, its board Map, players Map, deck object, deck and discard arrays,
\* log, turnOrder and pendingSteps arrays, one object and one supplies
\* object per faction, and one object and one tokens array per hex.
\* ------------------------------------------------------------------------
MaxMutations == 2

\* the hexes the mutations are tried on: the lake under fog and the mountain
\* of the starting scenario
CloneHexes == {9, 22}

StateObjects == 15 + 2 * NumHexes

TurnOrderIndex(t) == indexOf(<<"earth", "water", "fire">>, t)

BoardAt(b) == b + 1
PlayersAt(b) == b + 2
DeckAt(b) == b + 3
DeckArrayAt(b) == b + 4
DiscardAt(b) == b + 5
LogAt(b) == b + 6
TurnOrderAt(b) == b + 7
PendingStepsAt(b) == b + 8
PlayerAt(b, t) == b + 8 + TurnOrderIndex(t)
SuppliesAt(b, t) == b + 11 + TurnOrderIndex(t)
HexObjectAt(b, h) == b + 14 + h
TokensAt(b, h) == b + 14 + NumHexes + h

\* the GameState object at address b: the fields of s that are values, and
\* the addresses of the objects it refers to
StateObject(s, b) ==
    [board |-> BoardAt(b), players |-> PlayersAt(b), specialDeck |-> DeckAt(b),
     log |-> LogAt(b), turnOrder |-> TurnOrderAt(b), pendingSteps |-> PendingStepsAt(b),
     currentPlayerIndex |-> s.currentPlayerIndex, turnNumber |-> s.turnNumber,
     phase |-> s.phase, winner |-> s.winner, pendingAction |-> s.pendingAction,
     stepInstruction |-> s.stepInstruction, sotUsed |-> s.sotUsed,
     pendingFogMove |-> s.pendingFogMove, pendingForcedMove |-> s.pendingForcedMove]

\* the object at address a of a GameState with value s built at address b
StoredObject(s, b, a) ==
    CASE a = b -> StateObject(s, b)
      [] a = BoardAt(b) -> [h \in ALL_HEX_IDS |-> HexObjectAt(b, h)]
      [] a = PlayersAt(b) -> [t \in Elementals |-> PlayerAt(b, t)]
      [] a = DeckAt(b) -> [deck |-> DeckArrayAt(b), discard |-> DiscardAt(b),
                           noReshuffle |-> s.specialDeck.noReshuffle]
      [] a = DeckArrayAt(b) -> s.specialDeck.deck
      [] a = DiscardAt(b) -> s.specialDeck.discard
      [] a = LogAt(b) -> s.log
      [] a = TurnOrderAt(b) -> <<"earth", "water", "fire">>
      [] a = PendingStepsAt(b) -> <<>>
      [] \E t \in Elementals : a = PlayerAt(b, t) ->
            LET t == CHOOSE t \in Elementals : a = PlayerAt(b, t)
            IN [hexId |-> s.players[t].hexId, actionMarker |-> s.players[t].actionMarker,
                supplies |-> SuppliesAt(b, t)]
      [] \E t \in Elementals : a = SuppliesAt(b, t) ->
            s.players[CHOOSE t \in Elementals : a = SuppliesAt(b, t)].supplies
      [] a - b - 14 \in ALL_HEX_IDS ->
            [tokens |-> TokensAt(b, a - b - 14),
             elemental |-> s.board[a - b - 14].elemental,
             stoneMinion |-> s.board[a - b - 14].stoneMinion]
      [] OTHER -> s.board[a - b - 14 - NumHexes].tokens

\* the objects of a GameState with value s, built at address b
Store(s, b) == [i \in 1..StateObjects |-> StoredObject(s, b, b + i - 1)]

\* the value of the GameState at address ref, read through its references
View(hp, ref) ==
    [board |-> [h \in ALL_HEX_IDS |->
        [tokens |-> hp[hp[hp[hp[ref].board][h]].tokens],
         elemental |-> hp[hp[hp[ref].board][h]].elemental,
         stoneMinion |-> hp[hp[hp[ref].board][h]].stoneMinion]],
     players |-> [t \in Elementals |->
        [hexId |-> hp[hp[hp[ref].players][t]].hexId,
         actionMarker |-> hp[hp[hp[ref].players][t]].actionMarker,
         supplies |-> hp[hp[hp[hp[ref].players][t]].supplies]]],
     currentPlayerIndex |-> hp[ref].currentPlayerIndex,
     turnNumber |-> hp[ref].turnNumber,
     phase |-> hp[ref].phase,
     specialDeck |-> [deck |-> hp[hp[hp[ref].specialDeck].deck],
                      discard |-> hp[hp[hp[ref].specialDeck].discard],
                      noReshuffle |-> hp[hp[ref].specialDeck].noReshuffle],
     log |-> hp[hp[ref].log],
     winner |-> hp[ref].winner,
     pendingAction |-> hp[ref].pendingAction,
     stepInstruction |-> hp[ref].stepInstruction,
     sotUsed |-> hp[ref].sotUsed,
     pendingFogMove |-> hp[ref].pendingFogMove,
     pendingForcedMove |-> hp[ref].pendingForcedMove]

\* a hex object that keeps the tokens array of the hex it is copied from
cloneHexSharingTokens(hp, hexAddr, tokensCopy) ==
    [tokens |-> hp[hexAddr].tokens, elemental |-> hp[hexAddr].elemental,
     stoneMinion |-> hp[hexAddr].stoneMinion]

\* clone(): the object set for one hex, { tokens: [...hex.tokens], elemental,
\* stoneMinion }; tokensCopy is the address of the new array
cloneHex(hp, hexAddr, tokensCopy) ==
    [tokens |-> tokensCopy, elemental |-> hp[hexAddr].elemental,
     stoneMinion |-> hp[hexAddr].stoneMinion]

\* clone(): the object set for one faction, { ...p, supplies: {...p.supplies} }
clonePlayer(hp, playerAddr, suppliesCopy) == [hp[playerAddr] EXCEPT !.supplies = suppliesCopy]

\* clone(): the new GameState object.  The fields clone() does not assign
\* keep the values the constructor gave them.
cloneState(hp, g, b) ==
    [hp[g] EXCEPT !.board = BoardAt(b), !.players = PlayersAt(b),
                  !.specialDeck = DeckAt(b), !.log = LogAt(b),
                  !.turnOrder = TurnOrderAt(b), !.pendingSteps = PendingStepsAt(b),
                  !.stepInstruction = "",
                  !.pendingFogMove = Undefined,
                  !.pendingForcedMove = NoForcedMove(Undefined)]

\* clone(): the object at address a among the objects that clone() of the
\* GameState at address g creates at address b
clonedObject(hp, g, b, a) ==
    CASE a = b -> cloneState(hp, g, b)
      [] a = BoardAt(b) -> [h \in ALL_HEX_IDS |-> HexObjectAt(b, h)]
      [] a = PlayersAt(b) -> [t \in Elementals |-> PlayerAt(b, t)]
      [] a = DeckAt(b) -> [deck |-> DeckArrayAt(b), discard |-> DiscardAt(b),
                           noReshuffle |-> hp[hp[g].specialDeck].noReshuffle]
      [] a = DeckArrayAt(b) -> hp[hp[hp[g].specialDeck].deck]
      [] a = DiscardAt(b) -> hp[hp[hp[g].specialDeck].discard]
      [] a = LogAt(b) -> hp[hp[g].log]
      [] a = TurnOrderAt(b) -> hp[hp[g].turnOrder]
      [] a = PendingStepsAt(b) -> hp[hp[g].pendingSteps]
      [] \E t \in Elementals : a = PlayerAt(b, t) ->
            LET t == CHOOSE t \in Elementals : a = PlayerAt(b, t)
            IN clonePlayer(hp, hp[hp[g].players][t], SuppliesAt(b, t))
      [] \E t \in Elementals : a = SuppliesAt(b, t) ->
            hp[hp[hp[hp[g].players][CHOOSE t \in Elementals : a = SuppliesAt(b, t)]].supplies]
      [] a - b - 14 \in ALL_HEX_IDS ->
            cloneHex(hp, hp[hp[g].board][a - b - 14], TokensAt(b, a - b - 14))
      [] OTHER -> hp[hp[hp[hp[g].board][a - b - 14 - NumHexes]].tokens]

\* clone(): the heap after the GameState at address g is cloned to address b
cloneAt(hp, g, b) == hp \o [i \in 1..StateObjects |-> clonedObject(hp, g, b, b + i - 1)]

\* the addresses of the objects the GameState at address ref refers to,
\* directly or through other objects
ObjectsOf(hp, ref) ==
    {ref, hp[ref].board, hp[ref].players, hp[ref].specialDeck, hp[ref].log,
     hp[ref].turnOrder, hp[ref].pendingSteps,
     hp[hp[ref].specialDeck].deck, hp[hp[ref].specialDeck].discard}
    \cup {hp[hp[ref].players][t] : t \in Elementals}
    \cup {hp[hp[hp[ref].players][t]].supplies : t \in Elementals}
    \cup {hp[hp[ref].board][h] : h \in ALL_HEX_IDS}
    \cup {hp[hp[hp[ref].board][h]].tokens : h \in ALL_HEX_IDS}

\* A mutating method of GameState or of its deck writes into the objects it
\* reaches from the GameState it is called on.  Write gives the heap after a
\* method that takes the GameState at address ref from its value to v:
\* every object reached from ref holds its part of v, every other object is
\* untouched.
WriteHex(hp, ref, v, h) ==
    [hp EXCEPT ![hp[hp[ref].board][h]] = [@ EXCEPT !.elemental = v.board[h].elemental,
                                                   !.stoneMinion = v.board[h].stoneMinion],
               ![hp[hp[hp[ref].board][h]].tokens] = v.board[h].tokens]

RECURSIVE WriteHexes(_, _, _, _)
WriteHexes(hp, ref, v, h) ==
    IF h = 0 THEN hp ELSE WriteHexes(WriteHex(hp, ref, v, h), ref, v, h - 1)

WritePlayer(hp, ref, v, t) ==
    [hp EXCEPT ![hp[hp[ref].players][t]] = [@ EXCEPT !.hexId = v.players[t].hexId,
                                                     !.actionMarker = v.players[t].actionMarker],
               ![hp[hp[hp[ref].players][t]].supplies] = v.players[t].supplies]

WriteState(hp, ref, v) ==
    [hp EXCEPT ![ref] = [@ EXCEPT !.currentPlayerIndex = v.currentPlayerIndex,
                                  !.turnNumber = v.turnNumber, !.phase = v.phase,
                                  !.winner = v.winner, !.pendingAction = v.pendingAction,
                                  !.stepInstruction = v.stepInstruction,
                                  !.sotUsed = v.sotUsed,
                                  !.pendingFogMove = v.pendingFogMove,
                                  !.pendingForcedMove = v.pendingForcedMove],
               ![hp[ref].log] = v.log,
               ![hp[hp[ref].specialDeck].deck] = v.specialDeck.deck,
               ![hp[hp[ref].specialDeck].discard] = v.specialDeck.discard]

Write(hp, ref, v) ==
    WriteHexes(WritePlayer(WritePlayer(WritePlayer(WriteState(hp, ref, v), ref, v, "earth"),
                                       ref, v, "water"),
                           ref, v, "fire"),
               ref, v, NumHexes)

\* the GameState a method is called on: the live state g or the snapshot s
RefOf(x) == IF x = "g" THEN gRef ELSE sRef

InitClone ==
    /\ \E w \in StartPositions :
          /\ state = w.state
          /\ atSelect = [active |-> FALSE, cancelled |-> FALSE, state |-> w.state]
          /\ heap = Store(w.state, 1)
    /\ gRef = 1 /\ sRef = 0 /\ nextAddr = StateObjects + 1
    /\ IdlePlay
    /\ api = <<>>

\* s = g.clone()
CloneState ==
    /\ sRef = 0
    /\ heap' = cloneAt(heap, gRef, nextAddr)
    /\ sRef' = nextAddr
    /\ nextAddr' = nextAddr + StateObjects
    /\ lastEvent' = Ev("clone", NoHex, <<>>)
    /\ UNCHANGED <<state, savedState, ui, dialog, atSelect, events, gRef, api>>

\* a method called on the GameState x takes it to the value v
Mutated(x, v) ==
    /\ events < MaxMutations
    /\ heap' = Write(heap, RefOf(x), v)
    /\ lastEvent' = Ev("mutation", x, <<>>)
    /\ events' = events + 1
    /\ UNCHANGED <<state, savedState, ui, dialog, atSelect, gRef, sRef, nextAddr, api>>

Targets == {"g", "s"}

MutAddToken ==
    \E x \in Targets : \E h \in CloneHexes : \E t \in TokenTypes :
        /\ sRef # 0
        /\ Mutated(x, addToken(View(heap, RefOf(x)), h, t))

MutRemoveToken ==
    \E x \in Targets : \E h \in CloneHexes : \E t \in TokenTypes :
        /\ sRef # 0
        /\ hasToken(View(heap, RefOf(x)), h, t)
        /\ Mutated(x, removeToken(View(heap, RefOf(x)), h, t))

MutDestroyToken ==
    \E x \in Targets : \E h \in CloneHexes : \E t \in TokenTypes :
        /\ sRef # 0
        /\ hasToken(View(heap, RefOf(x)), h, t)
        /\ Mutated(x, destroyToken(View(heap, RefOf(x)), h, t))

MutTakeFromSupply ==
    \E x \in Targets : \E t \in TokenTypes :
        /\ sRef # 0
        /\ canTakeFromSupply(View(heap, RefOf(x)), getTokenOwner(t), t)
        /\ Mutated(x, takeFromSupply(View(heap, RefOf(x)), getTokenOwner(t), t))

MutSetElementalOnHex ==
    \E x \in Targets : \E h \in CloneHexes : \E type \in Elementals :
        /\ sRef # 0
        /\ Mutated(x, setElementalOnHex(View(heap, RefOf(x)), h, type))

MutSetStoneMinion ==
    \E x \in Targets : \E h \in CloneHexes :
        /\ sRef # 0
        /\ Mutated(x, setStoneMinion(View(heap, RefOf(x)), h))

\* useActiveCard with cards left after the draw: shift and push write into
\* the deck and discard arrays (no reshuffle, which would make new arrays)
MutUseActiveCard ==
    \E x \in Targets :
        /\ sRef # 0
        /\ Len(View(heap, RefOf(x)).specialDeck.deck) > 1
        /\ Mutated(x, [View(heap, RefOf(x)) EXCEPT !.specialDeck = useActiveCard(@, <<>>)])

MutAddLog ==
    \E x \in Targets :
        /\ sRef # 0
        /\ Mutated(x, addLog(View(heap, RefOf(x)), "snapshot test"))

NextClone ==
    \/ CloneState
    \/ MutAddToken
    \/ MutRemoveToken
    \/ MutDestroyToken
    \/ MutTakeFromSupply
    \/ MutSetElementalOnHex
    \/ MutSetStoneMinion
    \/ MutUseActiveCard
    \/ MutAddLog

SpecClone == InitClone /\ [][NextClone]_vars

\* ------------------------------------------------------------------------
\* Properties of play (specification Spec)
\* ------------------------------------------------------------------------
\* the tokens of the game, per type
TOTAL == [mountain |-> 4, forest |-> 3, fire |-> 12, lake |-> 5, fog |-> 2]

\* no action, forced move or fog move is in progress
BetweenOperations ==
    /\ dialog.kind \in {"sot", "actionChoice"}
    /\ ui.selectedAction = Null
    /\ Len(ui.pendingFogMoves) = 0
    /\ ~hasPendingForcedMove(state)

\* C1: token conservation.  In every reachable state between operations,
\* for each token type T the owner's supply of T plus the number of T tokens
\* on the board equals TOTAL[T].
C1_TokenConservation ==
    BetweenOperations =>
        \A T \in TokenTypes :
            supplyOf(state.players[getTokenOwner(T)], T) + countTokensOnBoard(state, T) = TOTAL[T]

\* what a rollback has to restore: every hex's tokens and markers, every
\* faction's position, supplies and action marker, and the special deck's
\* draw and discard piles
Restorable(s) ==
    [board |-> s.board, players |-> s.players,
     deck |-> s.specialDeck.deck, discard |-> s.specialDeck.discard]

\* C4: rollback identity.  When an action selected on the action cards is
\* cancelled, the board, the factions and the special deck are exactly as
\* they were at the moment the action was selected.
C4_RollbackIdentity ==
    atSelect.cancelled => Restorable(state) = Restorable(atSelect.state)

\* the number of tokens of type token on hex hexId
TokensOn(s, hexId, token) == Len(SelectSeq(s.board[hexId].tokens, LAMBDA t : t = token))

\* after has the fog of before: the same number of fog tokens on every hex
\* and the same fog supply
SameFog(before, after) ==
    /\ \A h \in ALL_HEX_IDS : TokensOn(after, h, "fog") = TokensOn(before, h, "fog")
    /\ supplyOf(after.players["water"], "fog") = supplyOf(before.players["water"], "fog")

\* C6: chain destruction never removes fog.  For every reachable board and
\* every mountain hex that landslide can destroy, each hex holds the same
\* number of fog tokens after chainDestroyMountain as before, and Water's
\* fog supply is unchanged.
C6_ChainKeepsFog ==
    \A m \in getLandslideDestroyTargets(state) : SameFog(state, chainDestroyMountain(state, m))

\* the chain reached hex h, which holds fog over a lake, and took the lake
LakeTakenUnderFog(before, after, h) ==
    /\ hasToken(before, h, "fog")
    /\ hasToken(before, h, "lake")
    /\ ~hasToken(after, h, "lake")
    /\ hasToken(after, h, "fog")

\* a board on which a chain destruction reaches a hex that holds fog and
\* removes the lake under it
C6_Witness ==
    \E m \in getLandslideDestroyTargets(state) : \E h \in ALL_HEX_IDS :
        LakeTakenUnderFog(state, chainDestroyMountain(state, m), h)

\* the mountain hexes connected to the hexes of comp by mountain-to-mountain
\* adjacency
RECURSIVE MountainComponent(_, _)
MountainComponent(s, comp) ==
    LET grown == comp \cup {n \in ALL_HEX_IDS :
                                /\ hasToken(s, n, "mountain")
                                /\ \E c \in comp : includes(getNeighbors(c), n)}
    IN IF grown = comp THEN comp ELSE MountainComponent(s, grown)

\* the tokens the flood fill leaves on hex h: nothing but fog next to a
\* removed mountain, no mountain on a hex of the component, and what was
\* there everywhere else
FloodFillTokens(before, comp, h) ==
    IF \E c \in comp : includes(getNeighbors(c), h)
    THEN SelectSeq(before.board[h].tokens, LAMBDA t : t = "fog")
    ELSE IF h \in comp
    THEN SelectSeq(before.board[h].tokens, LAMBDA t : t # "mountain")
    ELSE before.board[h].tokens

\* after is before with the flood fill from the component comp applied and
\* every removed token back in its owner's supply
IsFloodFill(before, after, comp) ==
    /\ \A h \in ALL_HEX_IDS : after.board[h].tokens = FloodFillTokens(before, comp, h)
    /\ \A T \in TokenTypes :
          supplyOf(after.players[getTokenOwner(T)], T)
            = supplyOf(before.players[getTokenOwner(T)], T)
              + countTokensOnBoard(before, T) - countTokensOnBoard(after, T)

\* C7: chain destruction is the mountain flood fill.  For every reachable
\* board and every mountain hex M that landslide can destroy, after
\* chainDestroyMountain the mountains of M's connected component are gone,
\* every neighbour of a removed mountain holds nothing but fog, every removed
\* token is back in its owner's supply, and the tokens of every other hex
\* are unchanged.
C7_ChainIsFloodFill ==
    \A m \in getLandslideDestroyTargets(state) :
        IsFloodFill(state, chainDestroyMountain(state, m), MountainComponent(state, {m}))

\* Earth's adjacent hexes that hold no fire token, no mountain and no stone
\* minion
EarthFree(s) ==
    {n \in Range(getNeighbors(s.players["earth"].hexId)) :
        /\ ~hasToken(s, n, "fire")
        /\ ~hasToken(s, n, "mountain")
        /\ ~getHex(s, n).stoneMinion}

\* this step is the confirmation of Fire's start-of-turn ability
FireSOTCompletes ==
    /\ dialog.kind = "confirmSOT"
    /\ currentPlayer(state) = "fire"
    /\ lastEvent' = Button("confirm")

\* this step is the confirmation of one of Fire's token-placing actions
FireActionCompletes ==
    /\ dialog.kind = "confirm"
    /\ ui.selectedAction \in {"flame-dash", "firestorm", "firewall"}
    /\ atSelect.active
    /\ lastEvent' = Button("confirm")

\* the state in which the completing operation of Fire began
FireOperationStart == IF dialog.kind = "confirmSOT" THEN state ELSE atSelect.state

\* hex h holds more fire tokens in after than in before
FirePlacedOn(before, after, h) == TokensOn(after, h, "fire") > TokensOn(before, h, "fire")

\* the operation of Fire that completes with this step has placed a fire
\* token on the hex occupied by Earth
FirePlacedOnEarth ==
    /\ FireSOTCompletes \/ FireActionCompletes
    /\ FirePlacedOn(FireOperationStart, state', state'.players["earth"].hexId)

\* C8: forced move on fire placement.  Whenever Fire's start-of-turn ability
\* or a fire action (flame dash, firestorm, firewall) has placed a fire token
\* on Earth's hex, then when the operation completes either Fire is the
\* winner or a forced move of Earth is pending whose targets are exactly
\* Earth's adjacent hexes without fire token, mountain and stone minion.
C8_ForcedMoveOnFirePlacement ==
    [][FirePlacedOnEarth =>
          \/ state'.winner = "fire"
          \/ /\ hasPendingForcedMove(state')
             /\ state'.pendingForcedMove.validTargets = EarthFree(state')]_vars

\* every neighbour of Earth's hex holds a mountain or a fire token
EarthWalledIn(s) ==
    \A n \in Range(getNeighbors(s.players["earth"].hexId)) :
        hasToken(s, n, "mountain") \/ hasToken(s, n, "fire")

\* C9: trap-to-win.  If every neighbour of Earth's hex holds a mountain or a
\* fire token when an operation of Fire begins, and the operation places a
\* fire token on Earth's hex, then when it completes the winner is Fire and
\* no forced move is pending.
C9_TrapToWin ==
    [][(FirePlacedOnEarth /\ EarthWalledIn(FireOperationStart)) =>
          (state'.winner = "fire" /\ ~hasPendingForcedMove(state'))]_vars

\* C10: a declared win is terminal.  Once the winner is set, no step changes
\* the winner, the faction to move or the board.
C10_WinIsTerminal ==
    [][state.winner # Null =>
          /\ state'.winner = state.winner
          /\ state'.currentPlayerIndex = state.currentPlayerIndex
          /\ state'.board = state.board]_vars

\* ------------------------------------------------------------------------
\* Properties of the executor called directly (specification SpecApi)
\* ------------------------------------------------------------------------
\* every hex's tokens and markers, every faction's position and every supply
\* are the same in a and b
SameBoardAndFactions(a, b) == a.board = b.board /\ a.players = b.players

\* the actions that take exactly one target
OneTargetActions ==
    {"uproot", "sprout", "mosey", "surf", "rematerialize", "smoke-dash", "flame-dash",
     "firewall"}

\* the last call passed one hex, to an action that takes one, and the hex
\* is not in the legal set returned for the action
InvalidTargetCall ==
    /\ api.called
    /\ api.action \in OneTargetActions
    /\ Len(api.targets) = 1
    /\ api.targets[1] \notin api.legal

\* C2: an invalid target is rejected without mutation.  After executeAction
\* with a hex outside the legal set last returned for the action, the board,
\* the positions and the supplies are as before the call and the call has
\* reported a failure.
C2_InvalidTargetRejected ==
    InvalidTargetCall => (SameBoardAndFactions(api.before, state) /\ api.result = "failure")

\* the numbers of targets each action takes
TargetCounts(actionId) ==
    CASE actionId \in OneTargetActions -> {1}
      [] actionId = "raise-mountain" -> {2}
      [] actionId = "landslide" -> {1, 2}
      [] actionId = "conjure" -> {1, 2}
      [] actionId = "firestorm" -> {n \in Nat : n >= 1}
      [] OTHER -> {}

\* the last call passed a target list of the wrong length, or an action id
\* that executeAction does not know
WrongArityCall == api.called /\ Len(api.targets) \notin TargetCounts(api.action)

\* C3: all-or-nothing application.  After executeAction with a target list
\* of the wrong length or an unknown action id, no standee has moved, no
\* supply has changed and no token was added or removed.
C3_AllOrNothing ==
    WrongArityCall => SameBoardAndFactions(api.before, state)

\* ------------------------------------------------------------------------
\* Properties of clone() (specification SpecClone)
\* ------------------------------------------------------------------------
\* this step is a mutating method called on the GameState x after clone()
MutationOf(x) == sRef # 0 /\ lastEvent' = Ev("mutation", x, <<>>) /\ events' = events + 1

Coincide(s) == \E a, b \in Elementals : a # b /\ s.players[a].hexId = s.players[b].hexId

\* each faction has one position on the board, and the only hex that can
\* carry its marker is that position
OnePosition(s) ==
    \A t \in Elementals :
        /\ s.players[t].hexId \in ALL_HEX_IDS
        /\ \A h \in ALL_HEX_IDS : s.board[h].elemental = t => h = s.players[t].hexId

\* the tokens of every hex, the stone minion's hex and the factions' positions
TokensAndPositions(s) ==
    [tokens |-> [h \in ALL_HEX_IDS |-> s.board[h].tokens],
     minion |-> getStoneMinionHex(s),
     at |-> [t \in Elementals |-> s.players[t].hexId]]

\* C11: single occupancy.  Each faction has exactly one position, and while
\* two factions stand on the same hex with no winner declared, no step other
\* than a cancel places or removes a token or moves a standee.
C11_SingleOccupancy ==
    [][/\ OnePosition(state')
       /\ (Coincide(state) /\ state.winner = Null /\ lastEvent' # Button("cancel")) =>
              TokensAndPositions(state') = TokensAndPositions(state)]_vars

\* C12: token stacking.  In every reachable state no hex holds more than
\* one token other than fog.
C12_TokenStacking ==
    \A h \in ALL_HEX_IDS : Len(nonFogTokens(state, h)) <= 1

\* ------------------------------------------------------------------------
\* The engine called directly with supplies running out (specification
\* SpecSupply).  A behaviour takes tokens of one type from their owner's
\* supply with takeFromSupply, any number of times, and then makes one call
\* that can place a token: placeFirestormToken, executeSOT or executeAction,
\* with targets from the legal sets.  api records the call.
\* ------------------------------------------------------------------------
\* the token type an operation places, directly or by terrain conversion
PlacedToken(op) ==
    CASE op \in {"raise-mountain"} -> "mountain"
      [] op \in {"uproot", "landslide", "sprout"} -> "forest"
      [] op \in {"mosey", "conjure", "executeSOT-water"} -> "lake"
      [] op \in {"smoke-dash", "flame-dash", "firestorm", "firewall",
                 "placeFirestormToken", "executeSOT-fire"} -> "fire"
      [] OTHER -> Null

\* the least hex of a set of hexes
MinHex(S) == CHOOSE h \in S : \A k \in S : h <= k

\* the hex of L that follows h, cyclically
NextHex(L, h) == IF \E k \in L : k > h THEN MinHex({k \in L : k > h}) ELSE MinHex(L)

\* the target lists tried for an action: every legal first target, and for
\* the two-target actions one second target
SupplyTargetLists(s, a) ==
    CASE a = "conjure" ->
            {<<h, NextHex(getConjureTargets(s), h)>> : h \in getConjureTargets(s)}
      [] a = "raise-mountain" ->
            {<<m, MinHex(getRaiseMountainPlaceTargets(s))>> :
                m \in {x \in getRaiseMountainMoveTargets(s) : getRaiseMountainPlaceTargets(s) # {}}}
      [] a = "firestorm" -> {<<m>> : m \in getFirestormMoveTargets(s)}
      [] OTHER -> {<<h>> : h \in getValidTargets(s, a)}

InitSupply ==
    /\ \E w \in StartPositions :
          /\ state = w.state
          /\ atSelect = [active |-> FALSE, cancelled |-> FALSE, state |-> w.state]
          /\ api = [op |-> "none", token |-> Null, before |-> w.state]
    /\ IdlePlay
    /\ heap = <<>> /\ gRef = 0 /\ sRef = 0 /\ nextAddr = 0

\* the call leaves state s; op names the call and token the type it places
Called(op, token, s) ==
    /\ state' = s
    /\ api' = [api EXCEPT !.op = op, !.token = token, !.before = state]
    /\ UNCHANGED <<savedState, ui, dialog, lastEvent, atSelect, events, heap, gRef, sRef,
                   nextAddr>>

\* state.takeFromSupply(player, token)
SupTakeFromSupply ==
    \E player \in Elementals : \E token \in TokenTypes :
        /\ api.op \in {"none", "takeFromSupply"}
        /\ api.token \in {Null, token}
        /\ state' = takeFromSupply(state, player, token)
        /\ api' = [api EXCEPT !.op = "takeFromSupply", !.token = token, !.before = state]
        /\ UNCHANGED <<savedState, ui, dialog, lastEvent, atSelect, events, heap, gRef, sRef,
                       nextAddr>>

\* executor.placeFirestormToken(hex)
SupPlaceFirestormToken ==
    \E hex \in ALL_HEX_IDS :
        /\ api.op \in {"none", "takeFromSupply"}
        /\ hex \in getFirestormPlacementTargets(state)
        /\ Called("placeFirestormToken", "fire", placeFirestormToken(state, hex))

\* executor.executeSOT(targetHex) on the turn of Water or Fire
SupExecuteSOT ==
    \E targetHex \in ALL_HEX_IDS :
        /\ api.op \in {"none", "takeFromSupply"}
        /\ currentPlayer(state) \in {"water", "fire"}
        /\ targetHex \in getSOTValidTargets(state)
        /\ Called(IF currentPlayer(state) = "water" THEN "executeSOT-water" ELSE "executeSOT-fire",
                  IF currentPlayer(state) = "water" THEN "lake" ELSE "fire",
                  executeSOT(state, targetHex))

\* executor.executeAction(actionId, targets)
SupExecuteAction ==
    \E actionId \in ExecutableActions :
        /\ api.op \in {"none", "takeFromSupply"}
        /\ PlacedToken(actionId) # Null
        /\ \E targets \in SupplyTargetLists(state, actionId) :
              Called(actionId, PlacedToken(actionId), executeAction(state, actionId, targets))

NextSupply == SupTakeFromSupply \/ SupPlaceFirestormToken \/ SupExecuteSOT \/ SupExecuteAction

SpecSupply == InitSupply /\ [][NextSupply]_vars

\* the supply of token type token held by its owner
OwnerSupply(s, token) == supplyOf(s.players[getTokenOwner(token)], token)

\* no token of the type is on the board in after that was not there in before
NoTokenAdded(before, after, token) ==
    countTokensOnBoard(after, token) <= countTokensOnBoard(before, token)

\* every token of another type that the call has put on the board was taken
\* from its owner's supply, and no supply has lost a token otherwise
NoSupplyTaken(before, after, token) ==
    \A t \in TokenTypes \ {token} :
        countTokensOnBoard(after, t) - countTokensOnBoard(before, t)
            = OwnerSupply(before, t) - OwnerSupply(after, t)

\* the last call attempted a placement of a token type whose supply was 0
PlacementWithoutSupply ==
    /\ api.op \notin {"none", "takeFromSupply"}
    /\ OwnerSupply(api.before, api.token) = 0

\* C13: supply never negative.  No supply count is below zero; a
\* takeFromSupply on an empty supply changes nothing; and a call that
\* attempts a placement while the owner's supply of the token type is 0 adds
\* no token of that type to the board and leaves that supply at 0, while
\* the tokens of the other types balance with their supplies (a token the
\* call destroys returns to its owner's supply, and the forest of a
\* conversion on the way is taken from Earth's supply).
C13_SupplyNeverNegative ==
    /\ \A p \in Elementals : \A k \in DOMAIN state.players[p].supplies :
          state.players[p].supplies[k] >= 0
    /\ (api.op = "takeFromSupply" /\ OwnerSupply(api.before, api.token) = 0) =>
          state.players[getTokenOwner(api.token)] = api.before.players[getTokenOwner(api.token)]
    /\ PlacementWithoutSupply =>
          /\ NoTokenAdded(api.before, state, api.token)
          /\ NoSupplyTaken(api.before, state, api.token)
          /\ OwnerSupply(state, api.token) = 0

\* Fire's supply was taken down to 0 with fewer than 12 fire tokens on the
\* board, and placeFirestormToken was then called on a legal placement hex
C13_Witness ==
    /\ api.op = "placeFirestormToken"
    /\ OwnerSupply(api.before, "fire") = 0
    /\ countTokensOnBoard(api.before, "fire") < 12

\* ---- Fire's range bonus (specification SpecSupply) ----

\* the hexes other than from that lie on a straight line from from, at most
\* range steps away
StraightWithin(from, range) ==
    {h \in ALL_HEX_IDS \ {from} : isStraightLine(from, h) /\ hexDistance(from, h) <= range}

\* hex h of the straight line from from is not behind a mountain or a lake
Unblocked(s, from, h) ==
    \A i \in 1..(Len(getLinePath(from, h).path) - 1) :
        /\ ~hasToken(s, getLinePath(from, h).path[i], "mountain")
        /\ ~hasToken(s, getLinePath(from, h).path[i], "lake")

\* the range bonus the claim gives Fire in state s
BonusAtFour(s) == IF OwnerSupply(s, "fire") <= 4 THEN 1 ELSE 0

\* the dash targets of s reach exactly as far as range base + bonus allows
DashRanges(s, fireHex, bonus) ==
    /\ \A h \in getSmokeDashTargets(s) : hexDistance(fireHex, h) <= 2 + bonus
    /\ \A h \in getFlameDashTargets(s) : hexDistance(fireHex, h) <= 3 + bonus
    /\ \A h \in StraightWithin(fireHex, 2 + bonus) :
          canFireEnd(s, h) => h \in getSmokeDashTargets(s)
    /\ \A h \in StraightWithin(fireHex, 3 + bonus) :
          (canFireEnd(s, h) /\ Unblocked(s, fireHex, h)) => h \in getFlameDashTargets(s)

\* C14: fire range bonus threshold.  In every state the smoke-dash targets
\* lie within 2 hexes of Fire and the flame-dash targets within 3, plus 1
\* exactly when Fire's supply of fire tokens is at most 4, and every hex
\* that far away on a straight line where Fire can end (for flame dash: not
\* behind a mountain or a lake) is a target.
C14_FireRangeBonus ==
    DashRanges(state, state.players["fire"].hexId, BonusAtFour(state))

\* a placement has brought Fire's supply from 5 to 4: before it no smoke-dash
\* target was further than 2 hexes away, after it one is 3 hexes away and a
\* flame-dash target is 4 hexes away
C14_Witness ==
    /\ api.op \notin {"none", "takeFromSupply"}
    /\ OwnerSupply(api.before, "fire") = 5
    /\ OwnerSupply(state, "fire") = 4
    /\ \A h \in getSmokeDashTargets(api.before) :
          hexDistance(api.before.players["fire"].hexId, h) <= 2
    /\ \E h \in getSmokeDashTargets(state) : hexDistance(state.players["fire"].hexId, h) = 3
    /\ \E h \in getFlameDashTargets(state) : hexDistance(state.players["fire"].hexId, h) = 4

\* ------------------------------------------------------------------------
\* The deck used on its own (specification SpecDeck)
\* ------------------------------------------------------------------------
MaxUses == 26

\* new SpecialAbilityDeck(noReshuffle): buildDeck and its shuffle
NewDeck(noReshuffle, deck) == [deck |-> deck, discard |-> <<>>, noReshuffle |-> noReshuffle]

InitDeck ==
    /\ \E noReshuffle \in BOOLEAN : \E deck \in shuffle(buildDeck) :
          /\ state = [NewGameState(deck) EXCEPT !.specialDeck = NewDeck(noReshuffle, deck)]
          /\ atSelect = [active |-> FALSE, cancelled |-> FALSE, state |-> state]
          /\ api = [op |-> "new", returned |-> Null, uses |-> 0, before |-> state]
    /\ IdlePlay
    /\ heap = <<>> /\ gRef = 0 /\ sRef = 0 /\ nextAddr = 0

\* deck.useActiveCard(); returned is the card the call returns
DeckUseActiveCard ==
    \E shuffled \in ShuffleChoices(state.specialDeck) :
        /\ api.uses < MaxUses
        /\ state' = [state EXCEPT !.specialDeck = useActiveCard(@, shuffled)]
        /\ api' = [op |-> "useActiveCard", returned |-> activeCard(state.specialDeck),
                   uses |-> api.uses + 1, before |-> state]
        /\ UNCHANGED <<savedState, ui, dialog, lastEvent, atSelect, events, heap, gRef, sRef,
                       nextAddr>>

NextDeck == DeckUseActiveCard

SpecDeck == InitDeck /\ [][NextDeck]_vars

\* how many copies of card the array holds
Copies(arr, card) == Cardinality({i \in 1..Len(arr) : arr[i] = card})

\* the draw pile and the discard pile together hold two copies of every card
TwelveCards(d) ==
    /\ Len(d.deck) + Len(d.discard) = 12
    /\ \A i \in 1..Len(SPECIAL_CARDS) :
          Copies(d.deck, SPECIAL_CARDS[i]) + Copies(d.discard, SPECIAL_CARDS[i]) = 2

\* C15: deck exhaustion.  After any number of useActiveCard() calls on a
\* fresh deck the draw pile and the discard pile together hold exactly the
\* 12 cards.  With reshuffling the active card is never none and every 12th
\* use leaves all 12 cards in the draw pile and the discard pile empty; with
\* noReshuffle the draw pile is empty from the 12th use on, and every later
\* use returns none and changes nothing.
C15_DeckExhaustion ==
    LET d == state.specialDeck
    IN /\ TwelveCards(d)
       /\ ~d.noReshuffle =>
             /\ activeCard(d) # Null
             /\ Len(d.deck) = 12 - (api.uses % 12)
             /\ api.uses % 12 = 0 => d.discard = <<>>
             /\ api.op = "useActiveCard" => api.returned # Null
       /\ d.noReshuffle =>
             /\ api.uses < 12 => Len(d.deck) = 12 - api.uses
             /\ api.uses >= 12 => (d.deck = <<>> /\ activeCard(d) = Null)
             /\ api.uses = 12 => api.returned # Null
             /\ api.uses > 12 => (api.returned = Null /\ state = api.before)

\* the 12th use of a reshuffling deck has just refilled the draw pile from
\* the discard pile
C15_Witness ==
    /\ api.op = "useActiveCard"
    /\ api.uses = 12
    /\ ~state.specialDeck.noReshuffle
    /\ Len(api.before.specialDeck.deck) = 1
    /\ Len(api.before.specialDeck.discard) = 11
    /\ Len(state.specialDeck.deck) = 12

\* ------------------------------------------------------------------------
\* Earth's movement, stated with paths (specification Spec)
\* ------------------------------------------------------------------------
\* the hexes Earth can step onto from a hex of the set from
EarthStep(s, from) ==
    {n \in ALL_HEX_IDS : canEarthEnter(s, n) /\ \E c \in from : n \in Range(getNeighbors(c))}

\* the hexes of the set reached that Earth can walk on from: those it can
\* pass through that are not in the set avoid
EarthOnward(s, avoid, reached) ==
    {h \in reached \ avoid : canEarthPassThrough(s, h)}

\* the hexes other than Earth's own where a walk of one, two or three steps
\* ends and Earth can end: every hex of the walk can be entered, and every
\* hex before the last can be passed through and is not in the set avoid
EarthWithinThree(s, avoid) ==
    LET one == EarthStep(s, {s.players["earth"].hexId})
        two == EarthStep(s, EarthOnward(s, avoid, one))
        three == EarthStep(s, EarthOnward(s, avoid, two))
    IN {h \in (one \cup two \cup three) \ {s.players["earth"].hexId} : canEarthEnd(s, h)}

\* the starting arrangement of setupScenario1 is on the board
StartingBoard(s) ==
    /\ s.board = NewGameState(buildDeck).board
    /\ \A e \in Elementals : s.players[e].hexId = NewGameState(buildDeck).players[e].hexId

\* C16: starting-scenario uproot targets.  With no forest on the board the
\* targets of uproot are exactly the hexes Earth reaches in at most 3 steps
\* under its movement rules; on the starting board hex 22 (mountain) and hex
\* 19 (stone minion) are not targets, and the hexes reached only by walking
\* through hex 22 are targets.
C16_UprootStartTargets ==
    /\ countTokensOnBoard(state, "forest") = 0 =>
          getUprootTargets(state) = EarthWithinThree(state, {})
    /\ StartingBoard(state) =>
          /\ 22 \notin getUprootTargets(state)
          /\ 19 \notin getUprootTargets(state)
          /\ EarthWithinThree(state, {}) \ EarthWithinThree(state, {22}) # {}
          /\ EarthWithinThree(state, {}) \ EarthWithinThree(state, {22})
                \subseteq getUprootTargets(state)

\* on the starting board Earth has chosen uproot and is offered its targets,
\* hex 16 behind the mountain of hex 22 among them
C16_Witness ==
    /\ StartingBoard(state)
    /\ ui.selectedAction = "uproot"
    /\ ui.validTargets = getUprootTargets(state)
    /\ 16 \in ui.validTargets
    /\ 16 \notin EarthWithinThree(state, {22})

\* ------------------------------------------------------------------------
\* Where a move may end (specification Spec)
\* ------------------------------------------------------------------------
\* the hexes the move actions of Earth offer, its own hex left out
EarthMoveTargets(s) ==
    (getUprootTargets(s) \cup getRaiseMountainMoveTargets(s) \cup getLandslideMoveTargets(s)
     \cup (IF hasPendingForcedMove(s) THEN s.pendingForcedMove.validTargets ELSE {}))
    \ {s.players["earth"].hexId}

\* the hexes the move actions of Water offer
WaterMoveTargets(s) == getWaterSOTTargets(s) \cup getMoseyTargets(s)

\* the hexes the move actions of Fire offer, its own hex left out
FireMoveTargets(s) ==
    (getSmokeDashTargets(s) \cup getFlameDashTargets(s) \cup getFirestormMoveTargets(s))
    \ {s.players["fire"].hexId}

\* C17: per-faction end-hex legality.  In every reachable state no move
\* target of Earth other than its own hex holds a mountain, a fire token or
\* the stone minion; no move target of Water holds a mountain or the stone
\* minion; no move target of Fire other than its own hex holds a mountain or
\* a lake.
C17_EndHexLegality ==
    /\ \A h \in EarthMoveTargets(state) :
          /\ ~hasToken(state, h, "mountain")
          /\ ~hasToken(state, h, "fire")
          /\ ~getHex(state, h).stoneMinion
    /\ \A h \in WaterMoveTargets(state) :
          /\ ~hasToken(state, h, "mountain")
          /\ ~getHex(state, h).stoneMinion
    /\ \A h \in FireMoveTargets(state) :
          /\ ~hasToken(state, h, "mountain")
          /\ ~hasToken(state, h, "lake")

\* ------------------------------------------------------------------------
\* The engine called directly with the fog moving (specification SpecFog)
\* ------------------------------------------------------------------------
MaxFogCalls == 2

\* the step distance of a fog follow-movement after a move of one hex
FogStep == 1

InitFog ==
    /\ \E w \in StartPositions :
          /\ state = w.state
          /\ atSelect = [active |-> FALSE, cancelled |-> FALSE, state |-> w.state]
          /\ api = [op |-> "none", calls |-> 0, before |-> w.state]
    /\ IdlePlay
    /\ heap = <<>> /\ gRef = 0 /\ sRef = 0 /\ nextAddr = 0

\* the call named op leaves state s
FogCalled(op, s) ==
    /\ api.calls < MaxFogCalls
    /\ state' = s
    /\ api' = [op |-> op, calls |-> api.calls + 1, before |-> state]
    /\ UNCHANGED <<savedState, ui, dialog, lastEvent, atSelect, events, heap, gRef, sRef,
                   nextAddr>>

\* executor.moveFog(fromHex, toHex), toHex one of getFogMoveTargets(fromHex, 1)
FogMoveFog ==
    \E fromHex \in Range(getFogTokenHexes(state)) :
        \E toHex \in getFogMoveTargets(state, fromHex, FogStep) \ {fromHex} :
            FogCalled("moveFog", moveFog(state, fromHex, toHex))

\* executor.executeAction of a dash, with one of its valid targets
FogExecuteDash ==
    \E actionId \in {"smoke-dash", "flame-dash"} :
        \E targetHex \in getValidTargets(state, actionId) :
            FogCalled(actionId, executeAction(state, actionId, <<targetHex>>))

NextFog == FogMoveFog \/ FogExecuteDash

SpecFog == InitFog /\ [][NextFog]_vars

\* ------------------------------------------------------------------------
\* Fog and blocking hexes on the way (specification Spec)
\* ------------------------------------------------------------------------
\* hex h holds a fog token and nothing else
FogOnly(s, h) ==
    /\ getHex(s, h).tokens = <<"fog">>
    /\ getHex(s, h).elemental = NoElemental
    /\ ~getHex(s, h).stoneMinion

FogOnlySet(s) == {h \in ALL_HEX_IDS : FogOnly(s, h)}

\* the hexes of the straight line from from that lie before h
Before(from, h) ==
    {getLinePath(from, h).path[i] : i \in 1..(Len(getLinePath(from, h).path) - 1)}

\* the targets of an Earth move of the given range when no walk may
\* continue through a hex that holds only fog
EarthTargetsFogEnds(s, range) ==
    {h \in getReachableHexes(s.players["earth"].hexId, range, EarthEnterSet(s),
                             EarthPassSet(s) \ FogOnlySet(s)) : canEarthEnd(s, h)}

\* no target of Earth's uproot or landslide is reached only through a hex
\* that holds only fog
EarthFogEnds(s) ==
    /\ getUprootTargets(s)
          = EarthTargetsFogEnds(s, IF countTokensOnBoard(s, "forest") > 0
                                   THEN UprootForestRange ELSE UprootRange)
    /\ getLandslideMoveTargets(s) \ {s.players["earth"].hexId}
          = EarthTargetsFogEnds(s, countTokensOnBoard(s, "mountain"))

\* no smoke-dash or flame-dash target lies behind a hex that holds only fog
DashFogEnds(s) ==
    \A h \in getSmokeDashTargets(s) \cup getFlameDashTargets(s) :
        \A b \in Before(s.players["fire"].hexId, h) : ~FogOnly(s, b)

\* the search for connected fire tokens never visits a hex that holds only fog
FirestormFogEnds(s) ==
    \A h \in getConnectedFire(s, s.players["fire"].hexId) \ {s.players["fire"].hexId} :
        ~FogOnly(s, h)

\* C18: fog ends movement.  For Earth's uproot and landslide, Fire's smoke
\* dash and flame dash, and firestorm's connectivity search, no legal target
\* is reached by a path or line that continues through a hex whose only
\* token is fog.
C18_FogEndsMovement ==
    /\ EarthFogEnds(state)
    /\ DashFogEnds(state)
    /\ FirestormFogEnds(state)

\* hex h holds a mountain or a lake
Blocking(s, h) == hasToken(s, h, "mountain") \/ hasToken(s, h, "lake")

\* the targets lie on the straight lines from Fire's hex within range, none
\* of them behind a hex that holds a mountain or a lake
DashStops(s, targets, range) ==
    \A h \in targets :
        /\ h \in StraightWithin(s.players["fire"].hexId, range)
        /\ \A b \in Before(s.players["fire"].hexId, h) : ~Blocking(s, b)

\* C19: dash stops at the first blocking cell.  Every target of smoke dash
\* and of flame dash lies on one of the six straight lines from Fire's hex
\* within the action's range, and none lies beyond the first hex of its line
\* that holds a mountain or a lake.
C19_DashStopsAtBlock ==
    /\ DashStops(state, getSmokeDashTargets(state), SmokeDashRange + getFireMovementBonus(state))
    /\ DashStops(state, getFlameDashTargets(state), FlameDashRange + getFireMovementBonus(state))

\* ------------------------------------------------------------------------
\* Conversion on arrival (specification Spec)
\* ------------------------------------------------------------------------
\* the token a standee converts when it arrives, and the token it leaves
Convertible(e) == CASE e = "earth" -> "lake" [] e = "water" -> "fire" [] e = "fire" -> "forest"
Replacement(e) == CASE e = "earth" -> "forest" [] e = "water" -> "lake" [] e = "fire" -> "fire"

\* the step moves the standee of e onto a hex holding its convertible token
ArrivesOnConvertible(e, before, after) ==
    /\ after.players[e].hexId # before.players[e].hexId
    /\ hasToken(before, after.players[e].hexId, Convertible(e))

\* the hex the standee of e stands on has been converted
Converted(e, before, after) ==
    /\ ~hasToken(after, after.players[e].hexId, Convertible(e))
    /\ supplyOf(before.players[e], Replacement(e)) > 0 =>
          hasToken(after, after.players[e].hexId, Replacement(e))

\* C20: terrain conversion on arrival.  Whenever a step other than an undo
\* moves a standee onto a hex holding its convertible token (Earth onto a
\* lake, Water onto a fire token, Fire onto a forest), the standee does not
\* stand on that token afterwards, and if the mover had a replacement token
\* in supply the hex holds the replacement.
C20_ConversionOnArrival ==
    [][\A e \in Elementals :
          (ArrivesOnConvertible(e, state, state') /\ lastEvent' # Button("cancel")) =>
              Converted(e, state, state')]_vars

\* ------------------------------------------------------------------------
\* The engine called directly with Water's lakes running out
\* (specification SpecLake)
\* ------------------------------------------------------------------------
MaxLakeCalls == 2

\* Fire's first turn with Water on hex 25, next to the fire token of hex 24
LineWaterByFire == TurnOf("uproot", 33) \o TurnOf("surf", 25)

LakeLines == {<<>>, LineWater1, LineWaterByFire}

InitLake ==
    /\ \E line \in LakeLines :
          /\ state = Replay(NewWorld(Rotate(buildDeck, 0)), line).state
          /\ atSelect = [active |-> FALSE, cancelled |-> FALSE, state |-> state]
          /\ api = [op |-> "none", targets |-> <<>>, calls |-> 0, before |-> state]
    /\ IdlePlay
    /\ heap = <<>> /\ gRef = 0 /\ sRef = 0 /\ nextAddr = 0

\* the call named op with the given targets leaves state s
LakeCalled(op, targets, calls, s) ==
    /\ state' = s
    /\ api' = [op |-> op, targets |-> targets, calls |-> calls, before |-> state]
    /\ UNCHANGED <<savedState, ui, dialog, lastEvent, atSelect, events, heap, gRef, sRef,
                   nextAddr>>

\* state.takeFromSupply('water', token) before the engine is called
LakeTakeFromSupply ==
    \E token \in {"lake", "fog"} :
        /\ api.op \in {"none", "takeFromSupply"}
        /\ canTakeFromSupply(state, "water", token)
        /\ LakeCalled("takeFromSupply", <<>>, 0, takeFromSupply(state, "water", token))

\* executor.executeAction of conjure or mosey with legal targets
LakeExecuteAction ==
    \E actionId \in {"conjure", "mosey"} :
        \E targets \in SupplyTargetLists(state, actionId) :
            /\ api.calls < MaxLakeCalls
            /\ LakeCalled(actionId, targets, api.calls + 1, executeAction(state, actionId, targets))

\* executor.executeSOT(targetHex) on Water's turn
LakeExecuteSOT ==
    \E targetHex \in getSOTValidTargets(state) :
        /\ api.calls < MaxLakeCalls
        /\ currentPlayer(state) = "water"
        /\ LakeCalled("executeSOT", <<targetHex>>, api.calls + 1, executeSOT(state, targetHex))

NextLake == LakeTakeFromSupply \/ LakeExecuteAction \/ LakeExecuteSOT

SpecLake == InitLake /\ [][NextLake]_vars

\* the hexes that hold a lake in after that they did not hold in before, in
\* the order of the targets of the call
LakesPlaced(before, after, targets) ==
    SelectSeq(targets, LAMBDA h : h # NoHex /\ hasToken(after, h, "lake") /\ ~hasToken(before, h, "lake"))

\* how many fog tokens hex h holds
FogOn(s, h) == Len(SelectSeq(getHex(s, h).tokens, LAMBDA t : t = "fog"))

\* the call has placed Water's last lake while fog was left in supply
LastLakePlaced ==
    /\ api.op \in {"conjure", "mosey", "executeSOT"}
    /\ Len(LakesPlaced(api.before, state, api.targets)) > 0
    /\ OwnerSupply(state, "lake") = 0
    /\ OwnerSupply(api.before, "fog") > 0

\* C21: fog auto-deploy.  When a call of conjure, mosey or Water's
\* start-of-turn move places the lake that brings Water's lake supply to 0
\* while Water has fog in supply, exactly one fog token is taken from the
\* supply and placed on the hex of that last lake; after any other call the
\* fog on the board and in the supply is what it was before.
C21_FogAutoDeploy ==
    LET placed == LakesPlaced(api.before, state, api.targets)
    IN /\ LastLakePlaced =>
             /\ OwnerSupply(state, "fog") = OwnerSupply(api.before, "fog") - 1
             /\ \A h \in ALL_HEX_IDS :
                   FogOn(state, h) = FogOn(api.before, h)
                                       + (IF h = placed[Len(placed)] THEN 1 ELSE 0)
       /\ (~LastLakePlaced /\ api.op \in {"conjure", "mosey", "executeSOT"}) =>
             /\ OwnerSupply(state, "fog") = OwnerSupply(api.before, "fog")
             /\ \A h \in ALL_HEX_IDS : FogOn(state, h) = FogOn(api.before, h)

\* two conjure calls have placed Water's four lakes, and the second one put
\* the fog of the supply on the hex of the last lake
C21_Witness ==
    /\ LastLakePlaced
    /\ api.op = "conjure"
    /\ api.calls = 2
    /\ OwnerSupply(api.before, "lake") = 2
    /\ Len(LakesPlaced(api.before, state, api.targets)) = 2
    /\ hasToken(state, api.targets[2], "fog")
    /\ ~hasToken(state, api.targets[1], "fog")

\* ------------------------------------------------------------------------
\* The win evaluator applied after calls of the executor (specification
\* SpecWin).  The positions it starts from are the positions of five games
\* played on the executor in turn order with legal targets; from each, one
\* more call is made and checkWinConditions is applied to the state it
\* leaves.
\* ------------------------------------------------------------------------
MaxWinCalls == 1

\* one call of a game: executeSOT(t[1]), executeAction(a, t) or state.advanceTurn()
Sot(h) == [op |-> "executeSOT", a |-> Null, t |-> <<h>>]
Act(a, t) == [op |-> "executeAction", a |-> a, t |-> t]
EndTurn == [op |-> "advanceTurn", a |-> Null, t |-> <<>>]

\* the target arrays the interface can collect for an action
LegalTargets(s, a, t) ==
    CASE a = "conjure" ->
            /\ Len(t) = 2 /\ t[1] # t[2]
            /\ t[1] \in getConjureTargets(s) /\ t[2] \in getConjureTargets(s)
      [] a = "raise-mountain" ->
            /\ Len(t) = 2
            /\ t[1] \in getRaiseMountainMoveTargets(s)
            /\ t[2] \in getRaiseMountainPlaceTargets(executeRaiseMountainMove(s, t[1]))
      [] a = "landslide" ->
            /\ Len(t) = 2
            /\ t[1] \in getLandslideMoveTargets(s)
            /\ t[2] \in {NoHex} \cup getLandslideDestroyTargets(s)
      [] a = "firestorm" -> Len(t) = 1 /\ t[1] \in getFirestormMoveTargets(s)
      [] OTHER -> Len(t) = 1 /\ t[1] \in getValidTargets(s, a)

\* a call that the interface does not offer is not made
playCall(s, c) ==
    IF c.op = "advanceTurn" THEN advanceTurn(s)
    ELSE IF c.op = "executeSOT"
    THEN IF ~s.sotUsed /\ c.t[1] \in getSOTValidTargets(s) THEN executeSOT(s, c.t[1]) ELSE s
    ELSE IF includes(getActionsForElemental(currentPlayer(s)), c.a) /\ LegalTargets(s, c.a, c.t)
    THEN executeAction(s, c.a, c.t)
    ELSE s

\* the test of turnNumber makes TLC evaluate the state before it goes on
RECURSIVE playGame(_, _)
playGame(s, calls) ==
    IF Len(calls) = 0 \/ s.turnNumber < 1 THEN s
    ELSE playGame(playCall(s, Head(calls)), Tail(calls))

\* turns that leave the board as it is
EarthStays(h) == <<Act("landslide", <<h, NoHex>>), EndTurn>>
WaterStays(h) == <<Act("mosey", <<h>>), EndTurn>>

\* Fire lays fire until eleven tokens are on the board, Water surfs to hex
\* 41 in line with Fire, and Fire dashes onto Water's hex with its last token
GameFire ==
    EarthStays(32) \o WaterStays(2) \o <<Sot(36), Act("firewall", <<35>>), EndTurn>>
    \o <<Act("uproot", <<27>>), EndTurn, Act("surf", <<40>>), EndTurn>>
    \o <<Sot(30), Act("flame-dash", <<31>>), EndTurn>>
    \o EarthStays(27) \o WaterStays(40) \o <<Sot(23), Act("firewall", <<25>>), EndTurn>>
    \o <<Act("uproot", <<26>>), EndTurn, Act("surf", <<41>>), EndTurn>>
    \o <<Act("flame-dash", <<41>>)>>

\* Earth turns the lakes of hexes 9, 3 and 4 into forests
GameForest ==
    <<Act("uproot", <<14>>), EndTurn, Act("conjure", <<3, 4>>), EndTurn,
      Act("firewall", <<35>>), EndTurn>>
    \o <<Act("raise-mountain", <<9, 41>>), EndTurn>> \o WaterStays(2)
    \o <<Act("smoke-dash", <<35>>), EndTurn>>
    \o <<Act("sprout", <<3>>), EndTurn, Act("surf", <<1>>), EndTurn,
         Act("flame-dash", <<36>>), EndTurn>>
    \o <<Act("landslide", <<4, NoHex>>)>>

\* Water surfs next to the stone minion, which steps onto Water's hex
GameMinion ==
    EarthStays(32) \o <<Act("surf", <<13>>), EndTurn, Act("firewall", <<35>>), EndTurn, Sot(13)>>

\* mountains on 40 and 39 and lakes on 30, 31 and 35 close the five
\* neighbours of Fire's hex 36
GameTrap ==
    <<Act("raise-mountain", <<32, 40>>), EndTurn, Act("surf", <<41>>), EndTurn,
      Act("smoke-dash", <<34>>), EndTurn>>
    \o EarthStays(32) \o <<Act("conjure", <<30, 31>>), EndTurn, Act("flame-dash", <<36>>), EndTurn>>
    \o <<Act("raise-mountain", <<32, 39>>), EndTurn>> \o WaterStays(41)
    \o <<Act("firestorm", <<36>>), EndTurn>>
    \o EarthStays(32) \o <<Act("conjure", <<35, 38>>)>>

\* a mountain on 26 and fire on 33 and 27 close the three neighbours of
\* Earth's hex 32
GameWall ==
    <<Act("raise-mountain", <<32, 26>>), EndTurn>> \o WaterStays(2)
    \o <<Act("firewall", <<35>>), EndTurn>>
    \o EarthStays(32) \o <<Act("surf", <<5>>), EndTurn, Sot(27)>>

WinGames == {GameFire, GameForest, GameMinion, GameTrap, GameWall}

\* the positions of the games, each from the new game
WinPositions ==
    UNION {{playGame(NewGameState(Rotate(buildDeck, 0)), SubSeq(G, 1, i)) : i \in 0..Len(G)} :
              G \in WinGames}

InitWin ==
    /\ state \in WinPositions
    /\ atSelect = [active |-> FALSE, cancelled |-> FALSE, state |-> state]
    /\ api = [op |-> "none", returned |-> checkWinConditions(state), calls |-> 0,
              before |-> state]
    /\ IdlePlay
    /\ heap = <<>> /\ gRef = 0 /\ sRef = 0 /\ nextAddr = 0

\* the call leaves state s, and checkWinConditions is applied to it; no call
\* is made once a win has been evaluated
WinCalled(op, s) ==
    /\ api.calls < MaxWinCalls
    /\ checkWinConditions(state) = Null
    /\ state' = s
    /\ api' = [op |-> op, returned |-> checkWinConditions(s), calls |-> api.calls + 1,
               before |-> state]
    /\ UNCHANGED <<savedState, ui, dialog, lastEvent, atSelect, events, heap, gRef, sRef,
                   nextAddr>>

\* executor.executeSOT(targetHex)
WinExecuteSOT ==
    \E targetHex \in ALL_HEX_IDS :
        /\ ~state.sotUsed
        /\ targetHex \in getSOTValidTargets(state)
        /\ WinCalled("executeSOT", executeSOT(state, targetHex))

\* executor.executeAction(actionId, targets)
WinExecuteAction ==
    \E actionId \in ExecutableActions :
        /\ includes(getActionsForElemental(currentPlayer(state)), actionId)
        /\ \E targets \in SupplyTargetLists(state, actionId) :
              WinCalled("executeAction", executeAction(state, actionId, targets))

\* state.advanceTurn()
WinAdvanceTurn ==
    /\ api.op # "advanceTurn"
    /\ WinCalled("advanceTurn", advanceTurn(state))

NextWin == WinExecuteSOT \/ WinExecuteAction \/ WinAdvanceTurn

SpecWin == InitWin /\ [][NextWin]_vars

\* ---- C22: the win evaluation -----------------------------------------------
turnOrder == <<"earth", "water", "fire">>

OnHex(s, f) == s.players[f].hexId

\* the number of hexes that hold a token of the type
HexesWith(s, token) ==
    Cardinality({h \in ALL_HEX_IDS :
                    \E i \in 1..Len(s.board[h].tokens) : s.board[h].tokens[i] = token})

ForestsToWin == 3
FireTokensToWin == 12

WinPredicate(s, f) ==
    CASE f = "earth" -> \/ OnHex(s, "earth") = OnHex(s, "water")
                        \/ s.board[OnHex(s, "water")].stoneMinion
                        \/ HexesWith(s, "forest") >= ForestsToWin
      [] f = "water" -> OnHex(s, "water") = OnHex(s, "fire")
      [] f = "fire" -> \/ OnHex(s, "fire") = OnHex(s, "earth")
                       \/ HexesWith(s, "fire") >= FireTokensToWin

\* the first faction in turn order whose predicate holds, Null when none does
FirstWinner(s) ==
    LET holds == {i \in 1..Len(turnOrder) : WinPredicate(s, turnOrder[i])}
    IN IF holds = {} THEN Null
       ELSE turnOrder[CHOOSE i \in holds : \A j \in holds : i <= j]

FireHemmedIn(s) ==
    \A n \in NeighborSet[OnHex(s, "fire")] :
        \/ hasToken(s, n, "mountain")
        \/ hasToken(s, n, "lake")
        \/ s.board[n].stoneMinion

\* C23: Water wins by trapping Fire.  Whenever a call leaves Fire with no
\* legal adjacent destination, every neighbour of its hex holding a
\* mountain, a lake or the stone minion, water is the winner: the evaluation
\* names water, or state.winner is water.
C23_TrapFireWaterWins ==
    (api.op # "none" /\ FireHemmedIn(state)) =>
        (api.returned = "water" \/ state.winner = "water")

\* ---- C24: the trap predicate and the movement rules ------------------------
\* the neighbours of f's hex that f's move-target computation lets it end on
LegalEnds(s, f) ==
    {n \in NeighborSet[OnHex(s, f)] :
        CASE f = "earth" -> canEarthEnd(s, n)
          [] f = "water" -> canWaterEnter(s, n)
          [] f = "fire" -> canFireEnd(s, n)}

\* the one-step targets of an action of f other than its own hex
StepTargets(s, f) ==
    NeighborSet[OnHex(s, f)] \cap
        (CASE f = "earth" -> getRaiseMountainMoveTargets(s)
           [] f = "water" -> getMoseyTargets(s)
           [] f = "fire" -> getSmokeDashTargets(s))

\* handleFireOnEarth finds a hex for Earth's forced move
ForcedMoveFound(s) ==
    hasPendingForcedMove(
        handleFireOnEarth([s EXCEPT !.pendingForcedMove = NoForcedMove(Undefined)]))

\* C24: the trap predicate agrees with the movement rules.  In every state
\* and for every faction f, isTrapped(state, f) holds exactly when no
\* neighbour of f's hex is a hex f may end on under the rules of its
\* move-target computation (canEarthEnd, canWaterEnter, canFireEnd), which
\* is exactly when f's one-step targets hold no neighbour; and
\* isTrapped(state, earth) holds exactly when handleFireOnEarth finds no hex
\* for the forced move.
C24_TrapAgreesWithMoves ==
    /\ \A f \in Elementals :
          /\ isTrapped(state, f) <=> (LegalEnds(state, f) = {})
          /\ isTrapped(state, f) <=> (StepTargets(state, f) = {})
    /\ isTrapped(state, "earth") <=> ~ForcedMoveFound(state)

\* Fire's start-of-turn token on hex 27 has closed the last neighbour of
\* Earth's hex: Earth is trapped and no forced move is found
C24_Witness ==
    /\ api.op = "executeSOT"
    /\ isTrapped(state, "earth")
    /\ ~isTrapped(api.before, "earth")
    /\ ~ForcedMoveFound(state)
    /\ LegalEnds(api.before, "earth") # {}

\* ---- C25: the end of a turn ------------------------------------------------
NextInTurnOrder(i) == (i + 1) % Len(turnOrder)

\* what finishTurn has done to the state of world w when the banner shows
EndOfTurnEffect(w) ==
    LET s == w.state
        t == finishTurnToBanner(w).state
    IN /\ t.currentPlayerIndex = NextInTurnOrder(s.currentPlayerIndex)
       /\ currentPlayer(t) = turnOrder[NextInTurnOrder(s.currentPlayerIndex) + 1]
       /\ t.turnNumber = IF s.currentPlayerIndex = Len(turnOrder) - 1
                         THEN s.turnNumber + 1 ELSE s.turnNumber
       /\ t.phase = "START_OF_TURN"
       /\ t.pendingAction = Null
       /\ t.stepInstruction = ""
       /\ ~t.sotUsed
       /\ t.board = s.board
       /\ t.players = s.players
       /\ t.specialDeck = s.specialDeck
       /\ t.winner = s.winner

\* a step of play keeps the player and the turn number, or passes the turn
\* to the next faction in turn order and counts a turn on the wrap
TurnPassesInOrder ==
    \/ /\ state'.currentPlayerIndex = state.currentPlayerIndex
       /\ state'.turnNumber = state.turnNumber
    \/ /\ state'.currentPlayerIndex = NextInTurnOrder(state.currentPlayerIndex)
       /\ state'.turnNumber = IF state'.currentPlayerIndex = 0
                              THEN state.turnNumber + 1 ELSE state.turnNumber

MarkerOf(s, p) == s.players[p].actionMarker

ActingFaction == currentPlayer(state)

SameTurn(a, b) ==
    a.currentPlayerIndex = b.currentPlayerIndex /\ a.turnNumber = b.turnNumber

\* the action in hand is never the one the acting faction's marker blocked
\* when the card was chosen, and the blocked card takes no click
CooldownKept ==
    /\ ui.selectedAction # Null =>
          /\ SameTurn(atSelect.state, state)
          /\ ui.selectedAction # MarkerOf(atSelect.state, ActingFaction)
    /\ state.pendingAction # Null =>
          state.pendingAction # MarkerOf(atSelect.state, ActingFaction)
    /\ MarkerOf(state, ActingFaction) # Null =>
          ~Offered(World, Card(MarkerOf(state, ActingFaction)))

CooldownStep ==
    /\ lastEvent'.type = "card" =>
          lastEvent'.arg # MarkerOf(state, ActingFaction)
    /\ MarkerOf(state', ActingFaction) # MarkerOf(state, ActingFaction) =>
          MarkerOf(state', ActingFaction) = ui.selectedAction
    /\ state'.currentPlayerIndex # state.currentPlayerIndex =>
          /\ SameTurn(atSelect.state, state)
          /\ MarkerOf(state', ActingFaction) # Null
          /\ MarkerOf(state', ActingFaction)
                # MarkerOf(atSelect.state, ActingFaction)
    /\ \A p \in Elementals :
          p # ActingFaction => MarkerOf(state', p) = MarkerOf(state, p)

\* C26: action cooldown.  A faction's marker changes only when it completes
\* a main action, and then to that action; the card of the acting faction's
\* marker takes no click, so the blocked action is never the selected nor
\* the pending action of that faction's turn; and when a turn ends the
\* faction's marker is an action other than the one it held when the turn's
\* card was chosen: no faction performs the same main action on two
\* consecutive turns of its own.
C26_ActionCooldown == [](CooldownKept) /\ [][CooldownStep]_vars

\* a faction that came to its turn with a marker has ended the turn with
\* another action on the marker
C26_Witness ==
    LET p == currentPlayer(atSelect.state)
    IN /\ lastEvent = Button("confirm")
       /\ state.currentPlayerIndex
             = NextInTurnOrder(atSelect.state.currentPlayerIndex)
       /\ MarkerOf(atSelect.state, p) # Null
       /\ MarkerOf(state, p) # Null
       /\ MarkerOf(state, p) # MarkerOf(atSelect.state, p)

\* ---- C27: the trigger of the fog movement ----------------------------------
WaterHex(s) == s.players["water"].hexId

FogOnBoard(s) == Len(getFogTokenHexes(s)) > 0

\* the fog sub-phase opens: the list of fogs to prompt for is filled
FogPhaseStarts == Len(ui.pendingFogMoves) = 0 /\ Len(ui'.pendingFogMoves) > 0

\* the confirm of Water's start-of-turn ability or of mosey has put Water on
\* a neighbour of the hex it stood on
GenuineWaterMove ==
    /\ currentPlayer(state) = "water"
    /\ lastEvent' = Button("confirm")
    /\ \/ dialog.kind = "confirmSOT"
       \/ dialog.kind = "confirm" /\ ui.selectedAction = "mosey"
    /\ hexDistance(WaterHex(state), WaterHex(state')) = 1
    /\ includes(getNeighbors(WaterHex(state)), WaterHex(state'))

FogTriggerStep ==
    /\ FogPhaseStarts => GenuineWaterMove
    /\ (GenuineWaterMove /\ FogOnBoard(state')
           /\ checkWinConditions(state') = Null) => FogPhaseStarts

\* while the sub-phase is on, the fog prompted for is on the board and may go
\* to any neighbour of its hex or stay
FogPrompt ==
    /\ dialog.kind = "infoSkipFog" <=> Len(ui.pendingFogMoves) > 0
    /\ Len(ui.pendingFogMoves) > 0 =>
          LET h == ui.pendingFogMoves[1]
          IN /\ ui.fogMoveRange = 1
             /\ hasToken(state, h, "fog")
             /\ ui.validTargets = {h} \cup Range(getNeighbors(h))

\* C27: fog follow-movement trigger.  The fog sub-phase opens on a step of
\* play only when that step is the confirm of Water's start-of-turn ability
\* or of mosey and has moved Water to a hex adjacent to and different from
\* the one it stood on; every such step opens it when a fog token is on the
\* board and the move has not ended the game; during the sub-phase the fog
\* prompted for may be moved to a neighbouring hex or left in place.  So a
\* start-of-turn teleport to a hex that is not adjacent, a surf, a
\* re-materialize and a mosey in place never open it.
C27_FogFollowsGenuineMove == [](FogPrompt) /\ [][FogTriggerStep]_vars

\* a mosey to a neighbouring hex has opened the sub-phase
C27_Witness ==
    /\ lastEvent = Button("confirm")
    /\ Len(ui.pendingFogMoves) > 0
    /\ ui.postFogCallback = "endTurn"
    /\ state.players["water"].actionMarker = "mosey"

\* ------------------------------------------------------------------------
\* Firestorm with several fire groups (specification SpecStorm): play from
\* the moment Fire chooses its action, in positions where two or three
\* separate groups of fire tokens are on the board.
\* ------------------------------------------------------------------------
\* Fire's first turn: a fire token on its own hex 36, then a smoke-dash to
\* hexId; Earth and Water pass their second turns in place
StormOpening(hexId) ==
    RaiseMountainTurn(26) \o TurnOf("mosey", 2)
    \o <<Hex(36), Button("confirm"), Card("smoke-dash"), Hex(hexId), Button("confirm")>>
    \o LandslideStayTurn \o TurnOf("surf", 5)

\* Fire's second turn after its start-of-turn token on its own hex: fire on
\* 24, 36 and hexId, in three groups
LineStorm(hexId) == StormOpening(hexId) \o <<Hex(hexId), Button("confirm")>>

\* Fire's second turn after a firewall and a start-of-turn token on 27: fire
\* on 24 and on 27, 33, 34, 35
LineStormWall == LineFire2 \o <<Hex(27), Button("confirm")>>

StormLines == {LineStorm(34), LineStorm(41), LineStormWall}

StormPositions == {Replay(NewWorld(Rotate(buildDeck, 0)), line) : line \in StormLines}

InitStorm ==
    /\ \E w \in StormPositions :
          /\ state = w.state
          /\ savedState = w.savedState
          /\ ui = w.ui
          /\ dialog = w.dialog
          /\ atSelect = [active |-> FALSE, cancelled |-> FALSE, state |-> w.state]
    /\ lastEvent = NoEvent
    /\ events = 0
    /\ IdleRest

NextStorm ==
    \/ ClickHex
    \/ ClickActionCard
    \/ ClickFirestormSkip
    \/ ClickConfirm
    \/ ClickCancel

SpecStorm == InitStorm /\ [][NextStorm]_vars

\* ---- C28: the fire groups of a firestorm -----------------------------------
FireHexes(s) == {h \in ALL_HEX_IDS : hasToken(s, h, "fire")}

AdjacentToGroup(g, h) == \E fh \in g : h \in NeighborSet[fh]

\* g is a connected component of the fire hexes of s
IsFireComponent(s, g) ==
    /\ g # {} /\ g \subseteq FireHexes(s)
    /\ \A part \in SUBSET g :
          (part # {} /\ part # g) => \E a \in part : AdjacentToGroup(g \ part, a)
    /\ \A h \in FireHexes(s) \ g : ~AdjacentToGroup(g, h)

\* a firestorm is in progress, chosen in the state atSelect.state
StormOn == atSelect.active /\ ui.selectedAction = "firestorm"

\* the hexes that have received a fire token since the action was chosen
StormPlaced == FireHexes(state) \ FireHexes(atSelect.state)

\* each placed token can be counted for a group it is adjacent to, no group
\* counted twice
OneTokenPerGroup(placed, groups) ==
    \E f \in [placed -> groups] :
        /\ \A h \in placed : AdjacentToGroup(f[h], h)
        /\ \A h, k \in placed : f[h] = f[k] => h = k

\* C28: firestorm group consumption.  While a firestorm is in progress its
\* groups are the connected components of the fire hexes of the state in
\* which the action was chosen, at most min(3, number of groups) tokens have
\* been placed, and the placed tokens can be counted one for each of as many
\* groups, every token for a group it is adjacent to: no group has received
\* two.
C28_FirestormGroups ==
    StormOn =>
       /\ \A g \in ui.firestormGroups : IsFireComponent(atSelect.state, g)
       /\ UNION ui.firestormGroups = FireHexes(atSelect.state)
       /\ Cardinality(StormPlaced) <= FirestormMaxGroups
       /\ Cardinality(StormPlaced) <= Cardinality(ui.firestormGroups)
       /\ OneTokenPerGroup(StormPlaced, ui.firestormGroups)

\* ---- C29: the movement of a firestorm --------------------------------------
FireHex(s) == s.players["fire"].hexId

\* the hexes linked to hex c through fire-token hexes, each adjacent to the
\* one before and the first adjacent to c
RECURSIVE ChainClosure(_, _)
ChainClosure(s, reached) ==
    LET more == {h \in FireHexes(s) \ reached : AdjacentToGroup(reached, h)}
    IN IF more = {} THEN reached ELSE ChainClosure(s, reached \cup more)

FireChain(s) == ChainClosure(s, {FireHex(s)})

\* the move targets after the placements, as the claim gives them
ChainMoveTargets(s) ==
    FireChain(s)
    \cup (IF getFireMovementBonus(s) > 0
          THEN {n \in ALL_HEX_IDS : AdjacentToGroup(FireChain(s), n) /\ canFireEnd(s, n)}
          ELSE {})

\* the movement step of a firestorm is on
StormMoving ==
    /\ StormOn
    /\ ui.currentStep = 1
    /\ state.phase = "EXECUTING"

\* C29: firestorm movement.  In the movement step of a firestorm the hexes
\* offered to Fire are its current hex, every hex linked to it through an
\* unbroken chain of adjacent fire-token hexes and, when the range bonus is
\* active, the hexes adjacent to that chain on which Fire may end.
C29_FirestormMoveTargets ==
    StormMoving => ui.validTargets = ChainMoveTargets(state)

\* ------------------------------------------------------------------------
\* Raise Mountain with four mountains on the board (specification
\* SpecMountain): play from Earth's third raise of a mountain.
\* ------------------------------------------------------------------------
\* Fire adds a token next to the fire of hex 24 and stays on hexId
FirestormTurn(placeHex, hexId) ==
    <<Button("skip"), Card("firestorm"), Hex(placeHex), Hex(hexId), Button("confirm")>>

\* Earth on 32 raises mountains on 10 and 11 in its first and third turns
\* and stays in place in between; Water and Fire move to and fro
LineMountain ==
    RaiseMountainTurn(10) \o TurnOf("mosey", 2) \o TurnOf("smoke-dash", 35)
    \o LandslideStayTurn \o TurnOf("surf", 5) \o FirestormTurn(17, 35)
    \o RaiseMountainTurn(11) \o TurnOf("mosey", 5) \o TurnOf("smoke-dash", 36)
    \o LandslideStayTurn \o TurnOf("surf", 2) \o FirestormTurn(18, 36)
    \o <<Button("skip")>>

MountainPositions ==
    {Replay(NewWorld(Rotate(buildDeck, 2 * k)), LineMountain) : k \in 0..1}

InitMountain ==
    /\ \E w \in MountainPositions :
          /\ state = w.state
          /\ savedState = w.savedState
          /\ ui = w.ui
          /\ dialog = w.dialog
          /\ atSelect = [active |-> FALSE, cancelled |-> FALSE, state |-> w.state]
    /\ lastEvent = NoEvent
    /\ events = 0
    /\ IdleRest

NextMountain ==
    \/ ClickActionCard
    \/ ClickRaiseMountainMoveFirst
    \/ ClickRaiseMountainPlaceFirst
    \/ ClickHex
    \/ ClickConfirm
    \/ ClickCancel

SpecMountain == InitMountain /\ [][NextMountain]_vars

\* ---- C30: relocating a mountain --------------------------------------------
\* the number of mountain tokens on hex h
MountainsOn(s, h) == Cardinality({i \in DOMAIN s.board[h].tokens : s.board[h].tokens[i] = "mountain"})

\* Earth has completed raise-mountain, chosen when MaxMountains mountain
\* tokens were on the board
RaiseCompletedAtFour ==
    /\ lastEvent = Button("confirm")
    /\ currentPlayer(atSelect.state) = "earth"
    /\ countTokensOnBoard(atSelect.state, "mountain") = MaxMountains
    /\ state.players["earth"].actionMarker = "raise-mountain"
    /\ atSelect.state.players["earth"].actionMarker # "raise-mountain"

\* one mountain has gone from a hex to a hex that held none
MountainRelocated(before, after) ==
    \E src, dst \in ALL_HEX_IDS :
        /\ src # dst
        /\ MountainsOn(before, src) > 0
        /\ MountainsOn(before, dst) = 0
        /\ MountainsOn(after, src) = MountainsOn(before, src) - 1
        /\ MountainsOn(after, dst) = 1
        /\ \A h \in ALL_HEX_IDS \ {src, dst} : MountainsOn(after, h) = MountainsOn(before, h)

\* C30: raise-mountain relocation.  When raise-mountain is completed after
\* being chosen with all 4 mountains on the board, one mountain has been
\* taken from a source hex and put on a destination hex: the number of
\* mountains on the board is still 4, Earth's supply of mountains is what it
\* was, and no hex has received a second mountain.
C30_RaiseMountainRelocates ==
    RaiseCompletedAtFour =>
       /\ MountainRelocated(atSelect.state, state)
       /\ countTokensOnBoard(state, "mountain") = MaxMountains
       /\ supplyOf(state.players["earth"], "mountain")
             = supplyOf(atSelect.state.players["earth"], "mountain")
       /\ \A h \in ALL_HEX_IDS :
             MountainsOn(state, h) <= 1 \/ MountainsOn(state, h) <= MountainsOn(atSelect.state, h)

\* ------------------------------------------------------------------------
\* Two runs side by side (specification SpecTwin).  state is the GameState
\* of the first run and api.twin the GameState of the second; both start
\* equal and every step applies one and the same operation, with the same
\* targets, to both.  Math.random is not shared: each run's shuffle has its
\* own outcome.
\* ------------------------------------------------------------------------
MaxTwinUses == 13
MaxTwinCalls == 1
MaxTwinDecks == 2

InitTwin ==
    /\ \E noReshuffle \in BOOLEAN : \E k \in 1..MaxTwinDecks :
       LET deck == Rotate(buildDeck, k - 1) IN
          /\ state = [NewGameState(deck) EXCEPT !.specialDeck = NewDeck(noReshuffle, deck)]
          /\ atSelect = [active |-> FALSE, cancelled |-> FALSE, state |-> state]
          /\ api = [op |-> "new", twin |-> state, uses |-> 0, calls |-> 0, clones |-> 0]
    /\ IdlePlay
    /\ heap = <<>> /\ gRef = 0 /\ sRef = 0 /\ nextAddr = 0

\* the operation has left s in the first run and t in the second
TwinApplied(op, s, t) ==
    /\ state' = s
    /\ api' = [api EXCEPT !.op = op, !.twin = t,
                          !.uses = IF op = "useActiveCard" THEN @ + 1 ELSE @,
                          !.calls = IF op = "executeAction" THEN @ + 1 ELSE @,
                          !.clones = IF op = "clone" THEN @ + 1 ELSE @]
    /\ UNCHANGED <<savedState, ui, dialog, lastEvent, atSelect, events, heap, gRef, sRef,
                   nextAddr>>

\* state.specialDeck.useActiveCard() in both runs
TwinUseActiveCard ==
    /\ api.uses < MaxTwinUses
    /\ \E shuffled \in ShuffleChoices(state.specialDeck) :
       \E shuffledTwin \in ShuffleChoices(api.twin.specialDeck) :
          TwinApplied("useActiveCard",
                      [state EXCEPT !.specialDeck = useActiveCard(@, shuffled)],
                      [api.twin EXCEPT !.specialDeck = useActiveCard(@, shuffledTwin)])

\* executor.executeAction(actionId, targets) in both runs
TwinExecuteAction ==
    /\ api.calls < MaxTwinCalls
    /\ \E actionId \in ExecutableActions :
          /\ includes(getActionsForElemental(currentPlayer(state)), actionId)
          /\ \E targets \in SupplyTargetLists(state, actionId) :
                TwinApplied("executeAction", executeAction(state, actionId, targets),
                            executeAction(api.twin, actionId, targets))

\* state.clone() in both runs, the runs going on from the snapshots
TwinClone ==
    /\ api.clones < MaxTwinCalls
    /\ TwinApplied("clone", clone(state), clone(api.twin))

NextTwin == TwinUseActiveCard \/ TwinExecuteAction \/ TwinClone

SpecTwin == InitTwin /\ [][NextTwin]_vars

\* C31: determinism.  Two runs that start from equal states and apply the
\* same sequence of operations with the same targets (snapshots and uses of
\* the special card included, up to and past the exhaustion of the draw
\* pile) are in equal states, the order of the draw pile included.
C31_Determinism == state = api.twin

\* ------------------------------------------------------------------------
\* The reachability search called on its own (specification SpecReach).
\* The callbacks are closed on the hexes of closed and let no path go on
\* through the hexes of walls; both are sets of hexes around the centre of
\* the board, and the search starts on, next to or away from them.
\* ------------------------------------------------------------------------
MaxRange == 3

ReachStarts == {10, 23, 25}

ReachRegion == {16, 17, 22, 24, 28, 29}

InitReach ==
    /\ state = NewGameState(Rotate(buildDeck, 0))
    /\ atSelect = [active |-> FALSE, cancelled |-> FALSE, state |-> state]
    /\ \E start \in ReachStarts : \E range \in 0..MaxRange :
       \E closed \in SUBSET ReachRegion : \E walls \in SUBSET ReachRegion :
          api = [op |-> "none", start |-> start, range |-> range,
                 canEnter |-> ALL_HEX_IDS \ closed,
                 canPassThrough |-> ALL_HEX_IDS \ walls, returned |-> {}]
    /\ IdlePlay
    /\ heap = <<>> /\ gRef = 0 /\ sRef = 0 /\ nextAddr = 0

\* getReachableHexes(start, range, canEnter, canPassThrough)
ReachGetReachableHexes ==
    /\ api.op = "none"
    /\ api' = [api EXCEPT !.op = "getReachableHexes",
                          !.returned = getReachableHexes(api.start, api.range, api.canEnter,
                                                         api.canPassThrough)]
    /\ UNCHANGED <<state, savedState, ui, dialog, lastEvent, atSelect, events, heap, gRef,
                   sRef, nextAddr>>

NextReach == ReachGetReachableHexes

SpecReach == InitReach /\ [][NextReach]_vars

\* ---- C32: the reachability search ------------------------------------------
\* the hexes pk of the paths start = p0, .., pk of exactly k steps between
\* neighbours with canEnter(pi) for 1 <= i <= k and canPassThrough(pi) for
\* 1 <= i < k
RECURSIVE PathEnds(_, _, _, _)
PathEnds(start, k, canEnter, canPassThrough) ==
    IF k = 0 THEN {start}
    ELSE LET from == IF k = 1 THEN {start}
                     ELSE PathEnds(start, k - 1, canEnter, canPassThrough) \cap canPassThrough
         IN {h \in canEnter : \E m \in from : h \in Range(getNeighbors(m))}

PathReachable(start, range, canEnter, canPassThrough) ==
    UNION {PathEnds(start, k, canEnter, canPassThrough) : k \in 1..range} \ {start}

\* C32: reachability search.  getReachableHexes(start, range, canEnter,
\* canPassThrough) returns exactly the hexes h other than start for which
\* there is a path start = p0, p1, .., pk = h of pairwise adjacent hexes with
\* 1 <= k <= range, canEnter(pi) for every 1 <= i <= k and
\* canPassThrough(pi) for every 1 <= i < k.
C32_ReachableIsPathSet ==
    api.op = "getReachableHexes" =>
        api.returned = PathReachable(api.start, api.range, api.canEnter, api.canPassThrough)

\* the search has returned a hex it may enter but not pass and has left out
\* a hex behind it that is within range by distance, and has returned a hex
\* whose shortest path is longer than its distance
C32_Witness ==
    /\ api.op = "getReachableHexes"
    /\ \E w \in api.returned : w \notin api.canPassThrough
    /\ \E h \in api.canEnter \ api.returned :
          h # api.start /\ hexDistance(api.start, h) <= api.range
    /\ \E h \in api.returned :
          \A k \in 1..hexDistance(api.start, h) :
              h \notin PathEnds(api.start, k, api.canEnter, api.canPassThrough)

\* ---- C33: raise-mountain places one mountain --------------------------------
\* Earth has completed raise-mountain through the dialogs, chosen when fewer
\* than MaxMountains mountain tokens were on the board
RaiseCompletedBelowFour ==
    /\ lastEvent = Button("confirm")
    /\ currentPlayer(atSelect.state) = "earth"
    /\ countTokensOnBoard(atSelect.state, "mountain") < MaxMountains
    /\ state.players["earth"].actionMarker = "raise-mountain"
    /\ atSelect.state.players["earth"].actionMarker # "raise-mountain"

\* hex p has one mountain more and every other hex as many as before
OneMountainAdded(before, after, p) ==
    /\ MountainsOn(after, p) = MountainsOn(before, p) + 1
    /\ \A h \in ALL_HEX_IDS \ {p} : MountainsOn(after, h) = MountainsOn(before, h)

\* C33: raise-mountain places exactly one mountain.  When raise-mountain is
\* completed through the dialogs (move first or place first, previewed and
\* confirmed) after being chosen with fewer than 4 mountains on the board,
\* the board holds exactly one mountain more than before, on one hex, and
\* Earth's supply of mountains is one less.
C33_RaiseMountainPlacesOne ==
    RaiseCompletedBelowFour =>
        /\ countTokensOnBoard(state, "mountain")
              = countTokensOnBoard(atSelect.state, "mountain") + 1
        /\ \E p \in ALL_HEX_IDS : OneMountainAdded(atSelect.state, state, p)
        /\ supplyOf(state.players["earth"], "mountain")
              = supplyOf(atSelect.state.players["earth"], "mountain") - 1

\* ------------------------------------------------------------------------
\* Play from two of Fire's turns (specification SpecForced).  In the first
\* position Earth has gone to hex 29, next to the fire token of hex 24, and
\* Water has gone to the lake of hex 9 and conjured lakes on 23 and 28, two
\* neighbours of hex 29.  In the second, a turn later, Fire has put its
\* start-of-turn token on hex 29, Earth has been forced onto the lake of
\* hex 28, which became a forest, and has gone on to 27, and Fire stands on
\* hex 34, next to that forest, on a hex without fire.
\* ------------------------------------------------------------------------
LineForcedLake ==
    TurnOf("uproot", 29)
    \o <<Hex(9), Button("confirm"), Card("conjure"), Hex(23), Hex(28), Button("confirm")>>

LineForestDash ==
    LineForcedLake
    \o <<Hex(29), Button("confirm"), Hex(28), Card("smoke-dash"), Hex(34), Button("confirm")>>
    \o <<Button("skip"), Card("raise-mountain"), Button("Move First"), Hex(27), Hex(1),
         Button("confirm")>>
    \o TurnOf("mosey", 9)

ForcedLines == {LineForcedLake, LineForestDash}

ForcedPositions == {Replay(NewWorld(Rotate(buildDeck, 0)), line) : line \in ForcedLines}

InitForced ==
    /\ \E w \in ForcedPositions :
          /\ state = w.state
          /\ savedState = w.savedState
          /\ ui = w.ui
          /\ dialog = w.dialog
          /\ atSelect = [active |-> FALSE, cancelled |-> FALSE, state |-> w.state]
    /\ lastEvent = NoEvent
    /\ events = 0
    /\ IdleRest

NextForced ==
    \/ ClickHex
    \/ ClickSOTSkip
    \/ ClickConfirmSOT
    \/ ClickActionCard
    \/ ClickFirestormSkip
    \/ ClickFlameDashPlaceFirst
    \/ ClickFlameDashMoveFirst
    \/ ClickConfirm
    \/ ClickCancel

SpecForced == InitForced /\ [][NextForced]_vars

\* ---- C34: the forced move is resolved before the turn ends -------------------
\* the step passes the turn to another faction
TurnAdvances == state'.currentPlayerIndex # state.currentPlayerIndex

\* the step clears a forced-move obligation
ObligationCleared == hasPendingForcedMove(state) /\ ~hasPendingForcedMove(state')

\* the step is a click on a hex recorded in the obligation, and it has moved
\* Earth there and left no lake on the hex
ForcedMoveResolved ==
    /\ lastEvent'.type = "hex"
    /\ lastEvent'.arg \in state.pendingForcedMove.validTargets
    /\ state'.players["earth"].hexId = lastEvent'.arg
    /\ getHex(state', lastEvent'.arg).elemental = "earth"
    /\ ~hasToken(state', lastEvent'.arg, "lake")

ForcedMoveStep ==
    /\ TurnAdvances => ~hasPendingForcedMove(state')
    /\ ObligationCleared => ForcedMoveResolved

\* C34: forced move before the end of the turn.  No step of play passes the
\* turn to the next faction and leaves a forced-move obligation pending; a
\* step clears the obligation only by a click on one of the hexes recorded
\* in it, after which Earth stands on that hex and no lake is on it.
C34_ForcedMoveBeforeTurnEnd == [][ForcedMoveStep]_vars

\* a click on a recorded hex that held a lake has just moved Earth there,
\* cleared the obligation and ended Fire's turn
C34_Witness ==
    /\ lastEvent.type = "hex"
    /\ ~hasPendingForcedMove(state)
    /\ Len(state.log) > 0
    /\ state.log[Len(state.log)].description = "Earth forced to move"
    /\ state.players["earth"].hexId = lastEvent.arg
    /\ hasToken(state, lastEvent.arg, "forest")
    /\ currentPlayer(state) = "earth"

\* ---- C35: flame dash places fire once -----------------------------------------
\* Fire has completed flame-dash through the dialogs
FlameDashCompleted ==
    /\ lastEvent = Button("confirm")
    /\ currentPlayer(atSelect.state) = "fire"
    /\ state.players["fire"].actionMarker = "flame-dash"
    /\ atSelect.state.players["fire"].actionMarker # "flame-dash"

\* the fire tokens hex h has gained since the card was chosen
FireGained(h) == TokensOn(state, h, "fire") - TokensOn(atSelect.state, h, "fire")

FireSupplyTaken ==
    supplyOf(atSelect.state.players["fire"], "fire") - supplyOf(state.players["fire"], "fire")

\* C35: flame dash places fire once.  When a flame dash is completed, fire
\* tokens have been added only to the hex Fire left and to the hex it went
\* to, at most one to each, and to both only if the destination held a
\* forest, whose conversion is the second token; the fire tokens taken from
\* supply are the tokens added: one at most besides the conversion.
C35_FlameDashPlacesOnce ==
    FlameDashCompleted =>
        LET from == atSelect.state.players["fire"].hexId
            to == state.players["fire"].hexId
            forest == hasToken(atSelect.state, to, "forest")
        IN /\ from # to
           /\ \A h \in ALL_HEX_IDS \ {from, to} : FireGained(h) = 0
           /\ FireGained(from) \in {0, 1}
           /\ FireGained(to) \in {0, 1}
           /\ (FireGained(from) = 1 /\ FireGained(to) = 1) => forest
           /\ FireSupplyTaken = FireGained(from) + FireGained(to)
           /\ FireSupplyTaken <= 1 + (IF forest THEN 1 ELSE 0)

\* Fire has placed a token on its hex, dashed onto a forest and turned it to
\* fire: two tokens taken, one of them the conversion
C35_Witness ==
    /\ FlameDashCompleted
    /\ FireGained(atSelect.state.players["fire"].hexId) = 1
    /\ hasToken(atSelect.state, state.players["fire"].hexId, "forest")
    /\ FireGained(state.players["fire"].hexId) = 1

\* ---- C36: the card 'Use Start of Turn' ----------------------------------------
\* the step confirms the hex chosen after the card 'Use Start of Turn'
SOTCardConfirmed ==
    /\ ui.selectedAction = "special"
    /\ ui.activeSpecialCardId = "start-of-turn"
    /\ dialog.kind = "confirm"
    /\ Len(ui.actionTargets) = 1
    /\ lastEvent' = Button("confirm")

\* a is b after the start-of-turn ability of the faction to move in b has
\* acted on hex t
SOTEffectApplied(b, a, t) ==
    CASE currentPlayer(b) = "earth" ->
            /\ getStoneMinionHex(a) = t
            /\ a.players["earth"].hexId = b.players["earth"].hexId
      [] currentPlayer(b) = "water" -> a.players["water"].hexId = t
      [] currentPlayer(b) = "fire" ->
            /\ TokensOn(a, t, "fire") = TokensOn(b, t, "fire") + 1
            /\ a.players["fire"].hexId = b.players["fire"].hexId

\* C36: the card 'Use Start of Turn'.  When the hex chosen after playing the
\* card is confirmed, the hex is one of the faction's start-of-turn targets
\* and the effect applied to it is that of the start-of-turn ability (Earth:
\* the stone minion is on the hex and Earth stands where it stood; Water:
\* Water stands on the hex; Fire: the hex has one fire token more and Fire
\* stands where it stood), and unless the game is won the turn passes to the
\* next faction.
C36_SOTCardPerformsSOT ==
    [][SOTCardConfirmed =>
          /\ ui.actionTargets[1] \in getSOTValidTargets(atSelect.state)
          /\ SOTEffectApplied(atSelect.state, state', ui.actionTargets[1])
          /\ (state'.winner = Null =>
                state'.currentPlayerIndex = NextInTurnOrder(state.currentPlayerIndex))]_vars

\* ---- C37: the card 'Use Any Ability' ------------------------------------------
\* the card 'Use Any Ability' has been played and the faction is choosing the
\* action it yields
UseAnyAbilityPlayed ==
    /\ ui.activeSpecialCardId = "use-any-ability"
    /\ state.pendingAction = "special"
    /\ dialog.kind = "actionChoice"

MainActions(p) == {a \in Range(getActionsForElemental(p)) : a # "special"}

\* C37: 'Use Any Ability' yields one main action.  Once the card is played,
\* the next choice of the faction is one of its 4 main actions and not the
\* special action again, and it takes no further card from the draw pile.
C37_UseAnyAbilityOnce ==
    [][UseAnyAbilityPlayed =>
          /\ lastEvent'.type = "card"
          /\ lastEvent'.arg \in MainActions(currentPlayer(state))
          /\ state'.specialDeck = state.specialDeck]_vars

\* ------------------------------------------------------------------------
\* NetworkController: the start of a multiplayer game on a guest.  The host
\* announces the start twice, over the peer data channel and through the
\* signaling server; each of the two transports delivers in order, and
\* nothing orders one against the other.
\* ------------------------------------------------------------------------
MaxNetGames == 2
MaxLobbyReturns == 2
MaxRematches == 1

\* assigned: playerAssignments has an entry for the guest's localId
GameStartMsg(assigned) == [type |-> "game-start", assigned |-> assigned]
StartGameMsg(assigned) == [type |-> "start-game", assigned |-> assigned]
RematchStartMsg == [type |-> "rematch-start"]
ReturnToLobbyMsg == [type |-> "return-to-lobby"]
RelayMsg(data) == [type |-> "relay", data |-> data]

\* a guest's controller: the flag gameStarted, and fired, the number of calls
\* of onGameStartCallback since gameStarted was last reset
NewController == [gameStarted |-> FALSE, fired |-> 0]

\* handlePeerMessage that starts the game on every 'game-start'
handlePeerMessageUnguarded(c, msg) ==
    CASE msg.type = "game-start" -> [c EXCEPT !.gameStarted = TRUE, !.fired = @ + 1]
      [] msg.type = "rematch-start" -> [c EXCEPT !.gameStarted = TRUE]
      [] OTHER -> c

handlePeerMessage(c, msg) ==
    CASE msg.type = "game-start" ->
            IF ~c.gameStarted THEN [c EXCEPT !.gameStarted = TRUE, !.fired = @ + 1] ELSE c
      [] msg.type = "rematch-start" -> [c EXCEPT !.gameStarted = TRUE]
      [] OTHER -> c

\* on a guest (isHost is false); 'start-game' always carries a state and the
\* assignments, and calls the callback only when the guest has an entry
handleSignalingMessage(c, msg) ==
    CASE msg.type = "relay" -> handlePeerMessage(c, msg.data)
      [] msg.type = "start-game" ->
            IF ~c.gameStarted
            THEN [c EXCEPT !.gameStarted = TRUE,
                           !.fired = IF msg.assigned THEN @ + 1 ELSE @]
            ELSE c
      [] msg.type = "return-to-lobby" -> [c EXCEPT !.gameStarted = FALSE, !.fired = 0]
      [] OTHER -> c

\* sendToAllPeers on the host: the data channel when it is open, the relay
\* of the signaling server when it is not
sendToAllPeers(net, msg) ==
    IF net.channelOpen THEN [net EXCEPT !.peer = Append(@, msg)]
    ELSE [net EXCEPT !.signaling = Append(@, RelayMsg(msg))]

startGame(net, assigned) ==
    [sendToAllPeers([net EXCEPT !.hostStarted = TRUE], GameStartMsg(assigned))
        EXCEPT !.signaling = Append(@, StartGameMsg(assigned))]

startRematch(net) == sendToAllPeers([net EXCEPT !.hostStarted = TRUE], RematchStartMsg)

\* api is the network: the host's flag and its view of the data channel, the
\* messages in flight to the guest on either transport, the guest's
\* controller, and which transports have delivered a start announcement to
\* the guest since its flag was last reset, the first of them first
InitNet ==
    /\ state = NewGameState(Rotate(buildDeck, 0))
    /\ atSelect = [active |-> FALSE, cancelled |-> FALSE, state |-> state]
    /\ \E open \in BOOLEAN :
          api = [op |-> "new", hostStarted |-> FALSE, channelOpen |-> open,
                 peer |-> <<>>, signaling |-> <<>>, guest |-> NewController,
                 arrived |-> <<>>, games |-> 0, returns |-> 0, rematches |-> 0]
    /\ IdlePlay
    /\ heap = <<>> /\ gRef = 0 /\ sRef = 0 /\ nextAddr = 0

NetUnchanged ==
    UNCHANGED <<state, savedState, ui, dialog, lastEvent, atSelect, events, heap, gRef,
                sRef, nextAddr>>

\* the host starts the game
NetStartGame ==
    /\ api.games < MaxNetGames
    /\ \E assigned \in BOOLEAN :
          api' = [startGame(api, assigned) EXCEPT !.op = "startGame", !.games = @ + 1]
    /\ NetUnchanged

\* the host starts a rematch after a game
NetStartRematch ==
    /\ api.games > 0 /\ api.rematches < MaxRematches
    /\ api' = [startRematch(api) EXCEPT !.op = "startRematch", !.rematches = @ + 1]
    /\ NetUnchanged

\* the host returns everyone to the lobby; the server broadcasts it
NetHostReturnToLobby ==
    /\ api.hostStarted /\ api.returns < MaxLobbyReturns
    /\ api' = [api EXCEPT !.op = "returnToLobby", !.hostStarted = FALSE,
                          !.signaling = Append(@, ReturnToLobbyMsg), !.returns = @ + 1]
    /\ NetUnchanged

\* the guest returns everyone to the lobby: returnToLobby resets its own flag
\* and the server's broadcast reaches the guest as well
NetGuestReturnToLobby ==
    /\ api.guest.gameStarted /\ api.returns < MaxLobbyReturns
    /\ api' = [api EXCEPT !.op = "returnToLobby", !.hostStarted = FALSE,
                          !.guest = [@ EXCEPT !.gameStarted = FALSE, !.fired = 0],
                          !.arrived = <<>>,
                          !.signaling = Append(@, ReturnToLobbyMsg), !.returns = @ + 1]
    /\ NetUnchanged

\* the data channel opens or closes; what a closing channel still holds is
\* lost
NetChannelChanges ==
    /\ api' = [api EXCEPT !.op = "channel", !.channelOpen = ~@,
                          !.peer = IF api.channelOpen THEN <<>> ELSE @]
    /\ NetUnchanged

IsStartAnnouncement(msg) ==
    \/ msg.type \in {"game-start", "start-game"}
    \/ msg.type = "relay" /\ msg.data.type = "game-start"

ArrivedAfter(msg, transport) ==
    IF msg.type = "return-to-lobby" THEN <<>>
    ELSE IF IsStartAnnouncement(msg) THEN Append(api.arrived, transport)
    ELSE api.arrived

\* the guest's data channel delivers its next message
NetDeliverPeer ==
    /\ Len(api.peer) > 0
    /\ api' = [api EXCEPT !.op = "peer", !.peer = Tail(@),
                          !.guest = handlePeerMessage(@, Head(api.peer)),
                          !.arrived = ArrivedAfter(Head(api.peer), "peer")]
    /\ NetUnchanged

\* the guest's signaling socket delivers its next message
NetDeliverSignaling ==
    /\ Len(api.signaling) > 0
    /\ api' = [api EXCEPT !.op = "signaling", !.signaling = Tail(@),
                          !.guest = handleSignalingMessage(@, Head(api.signaling)),
                          !.arrived = ArrivedAfter(Head(api.signaling),
                                         IF Head(api.signaling).type = "relay"
                                         THEN "relay" ELSE "signaling")]
    /\ NetUnchanged

NextNet ==
    \/ NetStartGame
    \/ NetStartRematch
    \/ NetHostReturnToLobby
    \/ NetGuestReturnToLobby
    \/ NetChannelChanges
    \/ NetDeliverPeer
    \/ NetDeliverSignaling

SpecNet == InitNet /\ [][NextNet]_vars

HEX_PIXELS == <<
    <<3140, 750>>, <<1948, 1430>>, <<2743, 1430>>, <<3538, 1430>>,
    <<4333, 1430>>, <<755, 2110>>, <<1550, 2110>>, <<2345, 2110>>,
    <<3140, 2110>>, <<3935, 2110>>, <<4730, 2110>>, <<5525, 2110>>,
    <<1153, 2790>>, <<1948, 2790>>, <<2743, 2790>>, <<3538, 2790>>,
    <<4333, 2790>>, <<5128, 2790>>, <<755, 3470>>, <<1550, 3470>>,
    <<2345, 3470>>, <<3140, 3470>>, <<3935, 3470>>, <<4730, 3470>>,
    <<5525, 3470>>, <<1153, 4150>>, <<1948, 4150>>, <<2743, 4150>>,
    <<3538, 4150>>, <<4333, 4150>>, <<5128, 4150>>, <<1550, 4830>>,
    <<2345, 4830>>, <<3140, 4830>>, <<3935, 4830>>, <<4730, 4830>>,
    <<1948, 5510>>, <<2743, 5510>>, <<3538, 5510>>, <<4333, 5510>>,
    <<3140, 6190>> >>

getPixelPos(hexId) == HEX_PIXELS[hexId]

\* api is the pair of hexes a, b and what the calls have returned; the
\* distance is -1 and the pixel positions are <<>> before the call
InitGrid ==
    /\ state = NewGameState(Rotate(buildDeck, 0))
    /\ atSelect = [active |-> FALSE, cancelled |-> FALSE, state |-> state]
    /\ \E a \in ALL_HEX_IDS : \E b \in ALL_HEX_IDS :
          api = [op |-> "none", a |-> a, b |-> b, distance |-> -1,
                 neighbors |-> <<>>, neighborsKnown |-> FALSE, pixels |-> <<>>]
    /\ IdlePlay
    /\ heap = <<>> /\ gRef = 0 /\ sRef = 0 /\ nextAddr = 0

\* hexDistance(a, b)
GridHexDistance ==
    /\ api.distance = -1
    /\ api' = [api EXCEPT !.op = "hexDistance", !.distance = hexDistance(api.a, api.b)]
    /\ NetUnchanged

\* getNeighbors(a)
GridGetNeighbors ==
    /\ ~api.neighborsKnown
    /\ api' = [api EXCEPT !.op = "getNeighbors", !.neighbors = getNeighbors(api.a),
                          !.neighborsKnown = TRUE]
    /\ NetUnchanged

\* getPixelPos(a) and getPixelPos(b)
GridGetPixelPos ==
    /\ api.pixels = <<>>
    /\ api' = [api EXCEPT !.op = "getPixelPos",
                          !.pixels = <<getPixelPos(api.a), getPixelPos(api.b)>>]
    /\ NetUnchanged

NextGrid == GridHexDistance \/ GridGetNeighbors \/ GridGetPixelPos

SpecGrid == InitGrid /\ [][NextGrid]_vars

\* ---- C39: distance and path length --------------------------------------------
\* the hexes reached from the hexes of S in at most k steps between
\* neighbours
RECURSIVE WithinSteps(_, _)
WithinSteps(S, k) ==
    IF k = 0 THEN S
    ELSE WithinSteps(S \cup UNION {NeighborSet[h] : h \in S}, k - 1)

\* the length of the shortest path from a to b through neighbouring hexes,
\* NumHexes when there is none
ShortestPath(a, b) ==
    LET K == {k \in 0..NumHexes : b \in WithinSteps({a}, k)}
    IN IF K = {} THEN NumHexes ELSE CHOOSE k \in K : \A j \in K : k <= j

\* C39: distance equals path length.  hexDistance(a, b) is the length of
\* the shortest path from a to b through neighbouring hexes, for every pair
\* of hexes of the board.
C39_DistanceIsPathLength ==
    api.distance # -1 => api.distance = ShortestPath(api.a, api.b)

\* ---- C40: adjacency and the drawn board ---------------------------------------
\* distances of the drawing, in tenths of a pixel: the pitch of the hexes of
\* a row, the distance between rows, and the horizontal offset between the
\* hexes of adjacent rows (39.7 or 39.8 px in the table)
HexPitch == 795
RowPitch == 680
HalfPitchLow == 397
HalfPitchHigh == 398

\* the centres p and q are one hex pitch apart
OnePitchApart(p, q) ==
    \/ p[2] = q[2] /\ Abs(p[1] - q[1]) = HexPitch
    \/ /\ Abs(p[2] - q[2]) = RowPitch
       /\ Abs(p[1] - q[1]) \in HalfPitchLow..HalfPitchHigh

\* C40: adjacency matches the drawn board.  b is a neighbour of a exactly
\* when the rendered centres of a and b are one hex pitch apart: in one row
\* and 79.5 px apart, or in adjacent rows (68 px) and about 39.75 px apart
\* horizontally.
C40_AdjacencyMatchesPixels ==
    (api.neighborsKnown /\ api.pixels # <<>>) =>
        (includes(api.neighbors, api.b) <=> OnePitchApart(api.pixels[1], api.pixels[2]))
====
